---- MODULE Spec2Model ----
(***************************************************************************)
(* A model of the SQLite file reader: the varint decoder (varint.rs), the  *)
(* database header, B-tree page, cell and record decoders (btree_page.rs)  *)
(* and the three schema/table walkers dot_dbinfo, dot_tables and           *)
(* count_rows (main.rs).                                                   *)
(*                                                                         *)
(* The decoders are pure functions; each is an operator computed as the    *)
(* code computes it and is exercised by a specification of its own         *)
(* (SpecVarint, SpecHeader, ...) whose Init draws the function's input     *)
(* from a bounded set and whose action applies the function.  The walkers  *)
(* are state machines over a database file.                                *)
(*                                                                         *)
(* Rust integers wider than TLC's 32-bit integers (i64, u64) are modelled  *)
(* as bit vectors: sequences of I64Bits bits, most significant bit first.  *)
(***************************************************************************)
EXTENDS Integers, Sequences, FiniteSets, TLC

VARIABLES
    input,            \* the argument of the pure function under check
    output,           \* its return value; NoOutput before the call
    overflow_checks,  \* build profile: TRUE = debug (overflow panics), FALSE = release (wraps)
    header,           \* the first 100 bytes of the database file
    file,             \* the pages of the database file after the header
    query,            \* the command main dispatches on
    pc,               \* the walker's position
    page,             \* the on-disk number of the page held in the `page` buffer
    remaining_pages,  \* the walker's LIFO stack of pending pages (0-based numbers)
    num_tables,       \* dot_dbinfo's counter
    tables,           \* dot_tables' output string under construction
    rows,             \* count_rows' counter
    rootpage,         \* count_rows' rootpage (0-based), once the schema row is found
    fetched,          \* history: the on-disk numbers of the pages read, in order
    result            \* how the query ended; kind "running" until then

vars == <<input, output, overflow_checks, header, file, query, pc, page,
          remaining_pages, num_tables, tables, rows, rootpage, fetched, result>>

walkerVars == <<header, file, query, pc, page, remaining_pages, num_tables,
                tables, rows, rootpage, fetched, result>>

\* `output` before the function under check has been called.
NoOutput == [called |-> FALSE]
\* `rootpage` before count_rows assigns it.
NoRootPage == [set |-> FALSE]
\* `input` in the specifications of the walkers, which call no function under check.
NoInput == [fn |-> "none"]

\* The sequences over S of length at most n.
SeqsUpTo(S, n) == UNION {[1..k -> S] : k \in 0..n}

(***************************************************************************)
(* Bit vectors                                                             *)
(***************************************************************************)
I64Bits == 64

Pow2(n) == 2 ^ n

\* The i64 zero.
I64Zero == [i \in 1..I64Bits |-> 0]

\* `b as i64` for a u8 b: the byte in the low 8 bits, zero-extended.
I64FromU8(b) ==
    [i \in 1..I64Bits |-> IF i <= I64Bits - 8 THEN 0 ELSE (b \div Pow2(I64Bits - i)) % 2]

\* `x << k` on an i64: the top k bits are lost, zeros enter at the bottom.
I64Shl(x, k) == [i \in 1..I64Bits |-> IF i + k <= I64Bits THEN x[i + k] ELSE 0]

\* `x | y` on i64.
I64Or(x, y) == [i \in 1..I64Bits |-> IF x[i] = 1 \/ y[i] = 1 THEN 1 ELSE 0]

\* The number a short bit string (most significant bit first) denotes.
RECURSIVE BitsToNat(_)
BitsToNat(bits) ==
    IF Len(bits) = 0 THEN 0
    ELSE 2 * BitsToNat(SubSeq(bits, 1, Len(bits) - 1)) + bits[Len(bits)]

(***************************************************************************)
(* varint.rs                                                               *)
(***************************************************************************)
\* The number of bytes a varint has at most (`.take(9)`).
VarintMaxBytes == 9

\* A mutant of VarintStep: the 9th byte is treated like the first eight.
VarintStepNinthAsSeven(i, byte, varint) ==
    I64Or(I64Shl(varint, 7), I64FromU8(byte % 128))

\* One iteration's update of `varint` (lines 13-22), for byte number i (0-based).
VarintStep(i, byte, varint) ==
    IF i < 8
    THEN I64Or(I64Shl(varint, 7), I64FromU8(byte % 128))
    ELSE I64Or(I64Shl(varint, 8), I64FromU8(byte))

\* The loop of Varint::parse from byte number i on (lines 10-23).
RECURSIVE VarintLoop(_, _, _, _)
VarintLoop(bytes, i, varint, bytes_read) ==
    IF i >= Len(bytes) \/ i >= VarintMaxBytes
    THEN [called |-> TRUE, value |-> varint, bytes_read |-> bytes_read]
    ELSE LET byte == bytes[i + 1]
             next == VarintStep(i, byte, varint)
         IN  IF i < 8 /\ byte < 128
             THEN [called |-> TRUE, value |-> next, bytes_read |-> bytes_read + 1]
             ELSE VarintLoop(bytes, i + 1, next, bytes_read + 1)

\* Varint::parse(bytes) -> (Self, usize).  The function has no error return.
Varint_parse(bytes) == VarintLoop(bytes, 0, I64Zero, 0)

(***************************************************************************)
(* btree_page.rs: the database file header                                 *)
(***************************************************************************)
\* "SQLite format 3" and the nul terminator (const MAGIC).
MAGIC == <<83, 81, 76, 105, 116, 101, 32, 102, 111, 114, 109, 97, 116, 32, 51, 0>>

\* The length of the file header (`let mut header = [0; 100]`).
HeaderLen == 100

\* bytes[i] of a Rust slice held as a TLA+ sequence.
At(bytes, i) == bytes[i + 1]

\* u16::from_be_bytes([hi, lo]).
U16FromBE(hi, lo) == hi * 256 + lo

\* u32::from_be_bytes of the 4 bytes at offset i.
U32FromBE(bytes, i) ==
    ((At(bytes, i) * 256 + At(bytes, i + 1)) * 256 + At(bytes, i + 2)) * 256 + At(bytes, i + 3)

\* u16::is_power_of_two: exactly one bit set.
IsPowerOfTwo(n) == Cardinality({k \in 0..15 : (n \div Pow2(k)) % 2 = 1}) = 1

\* An Err(anyhow) return.
Err(msg) == [called |-> TRUE, ok |-> FALSE, error |-> msg]

\* A mutant of PageSizeOf: the range check is left out.
PageSizeOfNoRange(size) ==
    IF size = 1 THEN [ok |-> TRUE, page_size |-> 65536]
    ELSE IF ~IsPowerOfTwo(size)
         THEN [ok |-> FALSE, error |-> "Page size is not a power of two"]
    ELSE [ok |-> TRUE, page_size |-> size]

\* The block that computes page_size from the raw u16 (lines 122-135).
PageSizeOf(size) ==
    IF size = 1 THEN [ok |-> TRUE, page_size |-> 65536]
    ELSE IF ~(512 <= size /\ size <= 32768)
         THEN [ok |-> FALSE, error |-> "Page size is not in valid range"]
    ELSE IF ~IsPowerOfTwo(size)
         THEN [ok |-> FALSE, error |-> "Page size is not a power of two"]
    ELSE [ok |-> TRUE, page_size |-> size]

\* A mutant of MagicMatches: only the first 15 bytes are compared.
MagicMatchesFirst15(bytes) == SubSeq(bytes, 1, 15) = SubSeq(MAGIC, 1, 15)

\* `magic == MAGIC` for magic = &bytes[0..16] (lines 116-118).
MagicMatches(bytes) == SubSeq(bytes, 1, 16) = MAGIC

\* DbHeader::parse(bytes) -> Result<Self>: the ensure! checks in the code's order,
\* then the decoded fields.
DbHeader_parse(bytes) ==
    LET size == PageSizeOf(U16FromBE(At(bytes, 16), At(bytes, 17)))
        format_write_version == At(bytes, 18)
        format_read_version == At(bytes, 19)
        freelist_trunk_head == U32FromBE(bytes, 32)
        freelist_page_count == U32FromBE(bytes, 36)
        schema_format == U32FromBE(bytes, 44)
        db_text_encoding == U32FromBE(bytes, 56)
    IN  IF ~MagicMatches(bytes)
        THEN Err("Magic string at beginning of database file is missing or wrong")
        ELSE IF ~size.ok THEN Err(size.error)
        ELSE IF ~(format_write_version = 1 \/ format_write_version = 2)
        THEN Err("Format write version is invalid")
        ELSE IF ~(format_read_version = 1 \/ format_read_version = 2)
        THEN Err("Format read version is invalid")
        ELSE IF At(bytes, 21) # 64 THEN Err("Maximum embedded payload size must be 64")
        ELSE IF At(bytes, 22) # 32 THEN Err("Minimum embedded payload size must be 32")
        ELSE IF At(bytes, 23) # 32 THEN Err("Leaf payload size must be 32")
        ELSE IF ~(  (freelist_page_count = 0 /\ freelist_trunk_head = 0)
                 \/ (freelist_page_count # 0 /\ freelist_trunk_head # 0))
        THEN Err("Freelist list trunk head and freelist page count disagree")
        ELSE IF ~(0 <= schema_format /\ schema_format <= 4) THEN Err("Schema format is invalid")
        ELSE IF ~(1 <= db_text_encoding /\ db_text_encoding <= 3)
        THEN Err("Invalid database text encoding")
        ELSE [called |-> TRUE, ok |-> TRUE,
              page_size |-> size.page_size,
              format_write_version |-> format_write_version,
              format_read_version |-> format_read_version,
              reserved_space |-> At(bytes, 20),
              freelist_trunk_head |-> freelist_trunk_head,
              freelist_page_count |-> freelist_page_count,
              schema_format |-> schema_format,
              db_text_encoding |-> db_text_encoding]

(***************************************************************************)
(* btree_page.rs: serial types                                             *)
(*                                                                         *)
(* A Varint's i64 is given here as the integer it denotes; the descriptors *)
(* the checks use lie within TLC's integers.                               *)
(***************************************************************************)
\* A panic!, todo!, failed expect or failed index: the thread unwinds, the process
\* ends with a panic message, and no value is returned.
Panic(msg) == [called |-> TRUE, panicked |-> TRUE, msg |-> msg]

\* impl From<Varint> for SerialType (lines 463-481).
SerialType_from(value) ==
    CASE value = 0 -> [panicked |-> FALSE, tag |-> "Null"]
      [] value = 1 -> [panicked |-> FALSE, tag |-> "I8"]
      [] value = 2 -> [panicked |-> FALSE, tag |-> "I16"]
      [] value = 3 -> [panicked |-> FALSE, tag |-> "I24"]
      [] value = 4 -> [panicked |-> FALSE, tag |-> "I32"]
      [] value = 5 -> [panicked |-> FALSE, tag |-> "I48"]
      [] value = 6 -> [panicked |-> FALSE, tag |-> "I64"]
      [] value = 7 -> [panicked |-> FALSE, tag |-> "F64"]
      [] value = 8 -> [panicked |-> FALSE, tag |-> "Zero"]
      [] value = 9 -> [panicked |-> FALSE, tag |-> "One"]
      [] value >= 12 /\ value % 2 = 0 -> [panicked |-> FALSE, tag |-> "N12AndEven", n |-> value]
      [] value >= 13 /\ value % 2 # 0 -> [panicked |-> FALSE, tag |-> "N13AndOdd", n |-> value]
      [] OTHER -> Panic("Malformed SerialType")

\* A mutant of SerialType_len: the blob length is computed with the text's 13.
SerialType_lenBlob13(st) ==
    CASE st.tag = "Null" -> 0
      [] st.tag = "I8" -> 1
      [] st.tag = "I16" -> 2
      [] st.tag = "I24" -> 3
      [] st.tag = "I32" -> 4
      [] st.tag = "I48" -> 6
      [] st.tag = "I64" -> 8
      [] st.tag = "F64" -> 8
      [] st.tag = "Zero" -> 0
      [] st.tag = "One" -> 0
      [] st.tag = "N12AndEven" -> (st.n - 13) \div 2
      [] st.tag = "N13AndOdd" -> (st.n - 13) \div 2

\* SerialType::len (lines 444-461).
SerialType_len(st) ==
    CASE st.tag = "Null" -> 0
      [] st.tag = "I8" -> 1
      [] st.tag = "I16" -> 2
      [] st.tag = "I24" -> 3
      [] st.tag = "I32" -> 4
      [] st.tag = "I48" -> 6
      [] st.tag = "I64" -> 8
      [] st.tag = "F64" -> 8
      [] st.tag = "Zero" -> 0
      [] st.tag = "One" -> 0
      [] st.tag = "N12AndEven" -> (st.n - 12) \div 2
      [] st.tag = "N13AndOdd" -> (st.n - 13) \div 2

(***************************************************************************)
(* btree_page.rs: pages, byte by byte                                      *)
(*                                                                         *)
(* A usize or i64 that is negative or beyond every buffer of the model is  *)
(* held as UsizeHuge (an even one) or UsizeHuge + 1 (an odd one): the code *)
(* tells such values apart by sign and parity only.                        *)
(***************************************************************************)
\* Stands for every usize beyond the buffers of the model.
UsizeHuge == 1073741824

\* The i64 of a Varint as an integer: itself when it is in 0 .. UsizeHuge - 1, -1 for
\* a negative one, UsizeHuge or UsizeHuge + 1 for a larger one.
I64Value(bits) ==
    IF bits[1] = 1 THEN -1
    ELSE IF \E i \in 1..(I64Bits - 30) : bits[i] = 1 THEN UsizeHuge + bits[I64Bits]
    ELSE BitsToNat(SubSeq(bits, I64Bits - 29, I64Bits))

\* `x as usize` for an i64 x: a negative x becomes a huge usize.
AsUsize(x) == IF x < 0 THEN UsizeHuge ELSE x

\* A panic of an index or a slice beyond the end of a buffer.
OutOfRange == Panic("index out of bounds")

\* A loop that never ends and pushes to a Vec in every round: the process ends when
\* memory runs out, and no value is returned.
OutOfMemory == Panic("memory allocation failed")

\* impl TryFrom<u8> for BTreePageType (lines 300-312).
BTreePageType_try_from(value) ==
    CASE value = 2 -> [ok |-> TRUE, page_type |-> "InteriorIndex"]
      [] value = 5 -> [ok |-> TRUE, page_type |-> "InteriorTable"]
      [] value = 10 -> [ok |-> TRUE, page_type |-> "LeafIndex"]
      [] value = 13 -> [ok |-> TRUE, page_type |-> "LeafTable"]
      [] OTHER -> [ok |-> FALSE, error |-> "Not a valid B-Tree page type"]

\* BTreePageHeader::len (lines 253-258).
BTreePageHeader_len(page_type) ==
    IF page_type \in {"InteriorIndex", "InteriorTable"} THEN 12 ELSE 8

\* BTreePageHeader::parse(bytes) for the 12 bytes BTreePage::parse hands it (lines
\* 260-289).  right_most is None (held as 0, with has_right_most FALSE) on a leaf.
BTreePageHeader_parse(bytes) ==
    LET t == BTreePageType_try_from(At(bytes, 0))
        cca == U16FromBE(At(bytes, 5), At(bytes, 6))
    IN  IF ~t.ok THEN Err(t.error)
        ELSE [called |-> TRUE, ok |-> TRUE,
              page_type |-> t.page_type,
              first_freeblock |-> U16FromBE(At(bytes, 1), At(bytes, 2)),
              num_cells |-> U16FromBE(At(bytes, 3), At(bytes, 4)),
              cell_content_area |-> IF cca = 0 THEN 65536 ELSE cca,
              fragmented |-> At(bytes, 7),
              has_right_most |-> t.page_type \in {"InteriorIndex", "InteriorTable"},
              right_most |-> IF t.page_type \in {"InteriorIndex", "InteriorTable"}
                             THEN U32FromBE(bytes, 8) ELSE 0]

\* `cp -= 100` on a u16 (line 25): below 100 the subtraction overflows, which panics
\* in a build with overflow checks and wraps modulo 2^16 in one without.
SubtractHeaderLen(cp) ==
    IF cp >= 100 THEN [panicked |-> FALSE, cp |-> cp - 100]
    ELSE IF overflow_checks THEN Panic("attempt to subtract with overflow")
    ELSE [panicked |-> FALSE, cp |-> (cp + 65536 - 100) % 65536]

\* The first loop of BTreePage::parse (lines 19-28) from cell number c on.
RECURSIVE CellPointerArray(_, _, _, _, _)
CellPointerArray(page_bytes, first_page, page_header, c, cell_pointer_array) ==
    IF c >= page_header.num_cells THEN [panicked |-> FALSE, array |-> cell_pointer_array]
    ELSE LET offset == c * 2 + BTreePageHeader_len(page_header.page_type) IN
         IF offset + 1 >= Len(page_bytes) THEN OutOfRange
         ELSE LET stored == U16FromBE(At(page_bytes, offset), At(page_bytes, offset + 1))
                  cp == IF first_page THEN SubtractHeaderLen(stored)
                        ELSE [panicked |-> FALSE, cp |-> stored]
              IN  IF cp.panicked THEN cp
                  ELSE CellPointerArray(page_bytes, first_page, page_header, c + 1,
                                        Append(cell_pointer_array, cp.cp))

\* Whether bytes, from byte number i on, are UTF-8 (String::from_utf8).
RECURSIVE IsUtf8(_, _)
IsUtf8(bytes, i) ==
    LET cont(k) == i + k <= Len(bytes) /\ bytes[i + k] >= 128 /\ bytes[i + k] <= 191 IN
    IF i > Len(bytes) THEN TRUE
    ELSE LET b == bytes[i] IN
         CASE b < 128 -> IsUtf8(bytes, i + 1)
           [] b >= 194 /\ b <= 223 -> cont(1) /\ IsUtf8(bytes, i + 2)
           [] b >= 224 /\ b <= 239 ->
                /\ cont(1) /\ cont(2)
                /\ (b = 224 => bytes[i + 1] >= 160)
                /\ (b = 237 => bytes[i + 1] <= 159)
                /\ IsUtf8(bytes, i + 3)
           [] b >= 240 /\ b <= 244 ->
                /\ cont(1) /\ cont(2) /\ cont(3)
                /\ (b = 240 => bytes[i + 1] >= 144)
                /\ (b = 244 => bytes[i + 1] <= 143)
                /\ IsUtf8(bytes, i + 4)
           [] OTHER -> FALSE

\* A big-endian two's complement integer of at most 4 bytes, sign-extended.
RECURSIVE UnsignedBE(_)
UnsignedBE(bytes) ==
    IF Len(bytes) = 0 THEN 0
    ELSE 256 * UnsignedBE(SubSeq(bytes, 1, Len(bytes) - 1)) + bytes[Len(bytes)]

SignedBE(bytes) ==
    IF bytes[1] < 128 THEN UnsignedBE(bytes)
    ELSE UnsignedBE(<<bytes[1] - 128>> \o SubSeq(bytes, 2, Len(bytes)))
         - Pow2(8 * Len(bytes) - 2) - Pow2(8 * Len(bytes) - 2)

\* A mutant of RecordValue_parse: a blob reports a length computed with the text's 13.
RecordValue_parseBlob13(st, bytes) ==
    CASE st.tag \in {"Null", "Zero", "One"} ->
            [panicked |-> FALSE, value |-> [tag |-> st.tag], read |-> 0]
      [] st.tag \in {"I8", "I16", "I24", "I32"} ->
            [panicked |-> FALSE, value |-> [tag |-> st.tag, val |-> SignedBE(bytes)],
             read |-> CASE st.tag = "I8" -> 1 [] st.tag = "I16" -> 2
                        [] st.tag = "I24" -> 3 [] st.tag = "I32" -> 4]
      [] st.tag = "I48" ->
            [panicked |-> FALSE,
             value |-> [tag |-> st.tag,
                        val |-> (IF bytes[1] < 128 THEN <<0, 0>> ELSE <<255, 255>>) \o bytes],
             read |-> 6]
      [] st.tag \in {"I64", "F64"} ->
            [panicked |-> FALSE, value |-> [tag |-> st.tag, val |-> bytes], read |-> 8]
      [] st.tag = "N12AndEven" ->
            [panicked |-> FALSE, value |-> [tag |-> st.tag, val |-> bytes],
             read |-> (AsUsize(st.n) - 13) \div 2]
      [] st.tag = "N13AndOdd" ->
            IF IsUtf8(bytes, 1)
            THEN [panicked |-> FALSE, value |-> [tag |-> st.tag, val |-> bytes],
                  read |-> (AsUsize(st.n) - 12) \div 2]
            ELSE Panic("Should be valid string")

\* RecordValue::parse(st, bytes) -> (Self, usize) (lines 512-578) on the slice of
\* st.len() bytes Record::parse hands it.  An I48 is held as the 8 bytes the code
\* pads it to, an I64 and an F64 as their 8 bytes, a text as its bytes.
RecordValue_parse(st, bytes) ==
    CASE st.tag \in {"Null", "Zero", "One"} ->
            [panicked |-> FALSE, value |-> [tag |-> st.tag], read |-> 0]
      [] st.tag \in {"I8", "I16", "I24", "I32"} ->
            [panicked |-> FALSE, value |-> [tag |-> st.tag, val |-> SignedBE(bytes)],
             read |-> CASE st.tag = "I8" -> 1 [] st.tag = "I16" -> 2
                        [] st.tag = "I24" -> 3 [] st.tag = "I32" -> 4]
      [] st.tag = "I48" ->
            [panicked |-> FALSE,
             value |-> [tag |-> st.tag,
                        val |-> (IF bytes[1] < 128 THEN <<0, 0>> ELSE <<255, 255>>) \o bytes],
             read |-> 6]
      [] st.tag \in {"I64", "F64"} ->
            [panicked |-> FALSE, value |-> [tag |-> st.tag, val |-> bytes], read |-> 8]
      [] st.tag = "N12AndEven" ->
            [panicked |-> FALSE, value |-> [tag |-> st.tag, val |-> bytes],
             read |-> (AsUsize(st.n) - 12) \div 2]
      [] st.tag = "N13AndOdd" ->
            IF IsUtf8(bytes, 1)
            THEN [panicked |-> FALSE, value |-> [tag |-> st.tag, val |-> bytes],
                  read |-> (AsUsize(st.n) - 12) \div 2]
            ELSE Panic("Should be valid string")

\* One round of the while loop of Record::parse (lines 390-394) after its
\* Varint::parse gave v and `st.into()` would give st; the rounds that follow.
RECURSIVE SerialTypesRound(_, _, _, _, _, _)
SerialTypesRound(bytes, bytes_read, remaining, serial_types, v, st) ==
    IF v.bytes_read = 0 THEN OutOfMemory
    ELSE IF remaining < v.bytes_read /\ overflow_checks
    THEN Panic("attempt to subtract with overflow")
    ELSE IF st.panicked THEN st
    ELSE IF remaining = v.bytes_read
    THEN [panicked |-> FALSE, serial_types |-> Append(serial_types, st),
          bytes_read |-> bytes_read + v.bytes_read]
    ELSE SerialTypesRound(bytes, bytes_read + v.bytes_read,
                          IF remaining < v.bytes_read THEN UsizeHuge
                          ELSE remaining - v.bytes_read,
                          Append(serial_types, st),
                          Varint_parse(SubSeq(bytes, bytes_read + v.bytes_read + 1, Len(bytes))),
                          SerialType_from(I64Value(
                              Varint_parse(SubSeq(bytes, bytes_read + v.bytes_read + 1,
                                                  Len(bytes))).value)))

\* The while loop of Record::parse (lines 389-395).  When the slice is used up with
\* remaining above 0, every further round reads 0 bytes and pushes a Null.
SerialTypesLoop(bytes, bytes_read, remaining) ==
    IF remaining = 0
    THEN [panicked |-> FALSE, serial_types |-> <<>>, bytes_read |-> bytes_read]
    ELSE SerialTypesRound(bytes, bytes_read, remaining, <<>>,
                          Varint_parse(SubSeq(bytes, bytes_read + 1, Len(bytes))),
                          SerialType_from(I64Value(
                              Varint_parse(SubSeq(bytes, bytes_read + 1, Len(bytes))).value)))

\* The for loop of Record::parse (lines 397-402) from serial type number i on.
RECURSIVE ValuesLoop(_, _, _, _, _)
\* A mutant of ValuesRound: a value that takes no bytes is not pushed.
ValuesRoundDropsEmpty(bytes, bytes_read, serial_types, i, values, rv) ==
    IF rv.panicked THEN rv
    ELSE ValuesLoop(bytes, bytes_read + rv.read, serial_types, i + 1,
                    IF rv.read = 0 THEN values ELSE Append(values, rv.value))

\* One round of that loop after RecordValue::parse gave rv; the rounds that follow.
ValuesRound(bytes, bytes_read, serial_types, i, values, rv) ==
    IF rv.panicked THEN rv
    ELSE ValuesLoop(bytes, bytes_read + rv.read, serial_types, i + 1, Append(values, rv.value))

ValuesLoop(bytes, bytes_read, serial_types, i, values) ==
    IF i > Len(serial_types)
    THEN [panicked |-> FALSE, values |-> values, bytes_read |-> bytes_read]
    ELSE IF bytes_read + SerialType_len(serial_types[i]) > Len(bytes) THEN OutOfRange
    ELSE ValuesRound(bytes, bytes_read, serial_types, i, values,
                     RecordValue_parse(serial_types[i],
                                       SubSeq(bytes, bytes_read + 1,
                                              bytes_read + SerialType_len(serial_types[i]))))

\* Record::parse after its loops: the value returned (lines 404-411).
RecordOf(header_len, sts, vs) ==
    IF vs.panicked THEN vs
    ELSE [panicked |-> FALSE,
          record |-> [header_len |-> header_len.value,
                      serial_types |-> sts.serial_types,
                      values |-> vs.values],
          read |-> vs.bytes_read]

\* Record::parse after the while loop gave sts (lines 397-411).
RecordValuesOf(bytes, header_len, sts) ==
    IF sts.panicked THEN sts
    ELSE RecordOf(header_len, sts, ValuesLoop(bytes, sts.bytes_read, sts.serial_types, 1, <<>>))

\* Record::parse after Varint::parse gave header_len, read as the usize len (lines
\* 386-411): `header_len.0 as usize - read` overflows when len is below the bytes read.
RecordSerialTypesOf(bytes, header_len, len) ==
    IF len < header_len.bytes_read /\ overflow_checks
    THEN Panic("attempt to subtract with overflow")
    ELSE RecordValuesOf(bytes, header_len,
                        SerialTypesLoop(bytes, header_len.bytes_read,
                                        IF len < header_len.bytes_read THEN UsizeHuge
                                        ELSE len - header_len.bytes_read))

\* Record::parse(bytes, _payload_len) -> (Self, usize) (lines 383-412).
Record_parse(bytes) ==
    RecordSerialTypesOf(bytes, Varint_parse(bytes), AsUsize(I64Value(Varint_parse(bytes).value)))

\* The LeafTable arm of Cell::parse after Record::parse gave r (lines 352-369).
LeafCellOf(bytes, payload_len, key, r) ==
    IF r.panicked THEN r
    ELSE IF r.read = AsUsize(I64Value(payload_len.value))
    THEN [panicked |-> FALSE,
          cell |-> [kind |-> "TableLeaf", payload_len |-> payload_len.value,
                    key |-> key.value, payload |-> r.record,
                    has_overflow |-> FALSE, overflow |-> 0]]
    ELSE IF payload_len.bytes_read + key.bytes_read + r.read + 3 >= Len(bytes)
    THEN OutOfRange
    ELSE [panicked |-> FALSE,
          cell |-> [kind |-> "TableLeaf", payload_len |-> payload_len.value,
                    key |-> key.value, payload |-> r.record,
                    has_overflow |-> TRUE,
                    overflow |-> U32FromBE(bytes, payload_len.bytes_read + key.bytes_read
                                                  + r.read)]]

\* The LeafTable arm of Cell::parse after the two calls of Varint::parse (lines 349-369).
LeafCellRecordOf(bytes, payload_len, key) ==
    LeafCellOf(bytes, payload_len, key,
               Record_parse(SubSeq(bytes, payload_len.bytes_read + key.bytes_read + 1,
                                   Len(bytes))))

\* The LeafTable arm of Cell::parse after the first call of Varint::parse (lines 346-369).
LeafCellKeyOf(bytes, payload_len) ==
    LeafCellRecordOf(bytes, payload_len,
                     Varint_parse(SubSeq(bytes, payload_len.bytes_read + 1, Len(bytes))))

\* Cell::parse(kind, bytes) -> Result<Self> (lines 331-372).
Cell_parse(kind, bytes) ==
    CASE kind \in {"InteriorIndex", "LeafIndex"} -> Panic("not yet implemented")
      [] kind = "InteriorTable" ->
            IF Len(bytes) < 4 THEN OutOfRange
            ELSE [panicked |-> FALSE,
                  cell |-> [kind |-> "TableInterior",
                            left_child |-> U32FromBE(bytes, 0),
                            key |-> Varint_parse(SubSeq(bytes, 5, Len(bytes))).value]]
      [] kind = "LeafTable" -> LeafCellKeyOf(bytes, Varint_parse(bytes))

\* The second loop of BTreePage::parse (lines 30-33) from pointer number i on.
RECURSIVE CellsLoop(_, _, _, _, _)
\* One round of that loop after Cell::parse gave c; the rounds that follow.
CellsRound(page_bytes, page_type, cell_pointer_array, i, cells, c) ==
    IF c.panicked THEN c
    ELSE CellsLoop(page_bytes, page_type, cell_pointer_array, i + 1, Append(cells, c.cell))

CellsLoop(page_bytes, page_type, cell_pointer_array, i, cells) ==
    IF i > Len(cell_pointer_array) THEN [panicked |-> FALSE, cells |-> cells]
    ELSE IF cell_pointer_array[i] > Len(page_bytes) THEN OutOfRange
    ELSE CellsRound(page_bytes, page_type, cell_pointer_array, i, cells,
                    Cell_parse(page_type,
                               SubSeq(page_bytes, cell_pointer_array[i] + 1, Len(page_bytes))))

\* BTreePage::parse after its loops: the value returned (lines 35-39).
PageOf(page_header, cpa, cs) ==
    IF cs.panicked THEN cs
    ELSE [called |-> TRUE, ok |-> TRUE, header |-> page_header,
          cell_pointer_array |-> cpa.array, cells |-> cs.cells]

\* BTreePage::parse after the pointer loop gave cpa (lines 29-39).
PageCellsOf(page_bytes, page_header, cpa) ==
    IF cpa.panicked THEN cpa
    ELSE PageOf(page_header, cpa,
                CellsLoop(page_bytes, page_header.page_type, cpa.array, 1, <<>>))

\* BTreePage::parse after BTreePageHeader::parse gave page_header (lines 17-39).
PagePointersOf(page_bytes, first_page, page_header) ==
    IF ~page_header.ok THEN page_header
    ELSE PageCellsOf(page_bytes, page_header,
                     CellPointerArray(page_bytes, first_page, page_header, 0, <<>>))

\* BTreePage::parse(page, first_page) -> Result<Self> (lines 16-40).
BTreePage_parse(page_bytes, first_page) ==
    IF Len(page_bytes) < 12 THEN OutOfRange
    ELSE PagePointersOf(page_bytes, first_page, BTreePageHeader_parse(SubSeq(page_bytes, 1, 12)))

(***************************************************************************)
(* main.rs: the walkers                                                    *)
(*                                                                         *)
(* The walkers see a page only through BTreePage::parse, so a page of the  *)
(* file is held here in decoded form: its page type, its cells (for a leaf *)
(* cell the record's serial types and values, for an interior cell the     *)
(* left child) and its right-most pointer.  Text is a sequence of          *)
(* one-character strings.                                                  *)
(***************************************************************************)
TextTable == <<"t", "a", "b", "l", "e">>
TextIndex == <<"i", "n", "d", "e", "x">>
TextSqlitePrefix == <<"s", "q", "l", "i", "t", "e", "_">>

\* The characters str::trim removes, among those the model's texts use.
Whitespace == {" ", "\t", "\n"}

\* str::starts_with.
StartsWith(s, prefix) ==
    Len(s) >= Len(prefix) /\ SubSeq(s, 1, Len(prefix)) = prefix

\* str::trim: leading and trailing whitespace removed.
RECURSIVE Trim(_)
Trim(s) ==
    IF Len(s) = 0 THEN s
    ELSE IF s[1] \in Whitespace THEN Trim(SubSeq(s, 2, Len(s)))
    ELSE IF s[Len(s)] \in Whitespace THEN Trim(SubSeq(s, 1, Len(s) - 1))
    ELSE s

\* The walkers' stack of pending pages grows without bound on a file whose pointers
\* form a cycle; the model follows a walk while the stack holds fewer entries.
MaxStack == 6

\* On such a file the walkers' counters and output grow without bound as well; the
\* model follows a walk while they are below MaxCount.
MaxCount == 10

\* fetched is the history of the pages a walk has read; it keeps the first MaxFetched
\* of them.
MaxFetched == 12

\* The characters dot_tables' output holds at most while the model follows the walk.
MaxText == 30

\* The page types of BTreePageType, and a type byte that is none of them.
TablePageTypes == {"InteriorTable", "LeafTable"}
IndexPageTypes == {"InteriorIndex", "LeafIndex"}

\* x - 1 on a u32 that is 0 wraps, in a release build, to u32::MAX, which is beyond
\* TLC's integers: -1 stands for it, and every use treats it as a page number beyond
\* any file.
U32Max == -1

\* The number of pages of the file.
NumPages == Len(file)

\* file.read_exact_at(&mut page, next_page * page_size) succeeds when the whole page
\* lies in the file.
ReadOk(next_page) == next_page # U32Max /\ next_page >= 0 /\ next_page < NumPages

\* BTreePage::parse on the buffer holding page p (1-based), as the walkers call it:
\* &page[100..] with first_page for the schema root, &page[0..] otherwise.  The
\* buffer of page 1 starts with the file header, so decoding it from offset 0 reads
\* the magic's first byte 0x53 as the page type.  A cell of an index page reaches
\* todo!() in Cell::parse.
ParsePage(p, first_page) ==
    LET d == file[p] IN
    IF p = 1 /\ ~first_page THEN Err("Not a valid B-Tree page type: 53")
    ELSE IF d.page_type \notin TablePageTypes \cup IndexPageTypes
    THEN Err("Not a valid B-Tree page type")
    ELSE IF d.page_type \in IndexPageTypes /\ Len(d.cells) > 0
    THEN Panic("not yet implemented")
    ELSE [called |-> TRUE, ok |-> TRUE,
          header |-> [page_type |-> d.page_type, num_cells |-> Len(d.cells),
                      right_most |-> d.right_most],
          cells |-> d.cells]

\* Whether a decode outcome is a panic, an Err, or a value.
Panicked(r) == "panicked" \in DOMAIN r /\ r.panicked
Failed(r) == ~Panicked(r) /\ ~r.ok

\* How a query ends.
Running == [kind |-> "running"]
QueryErr(msg) == [kind |-> "err", error |-> msg]
QueryPanic(msg) == [kind |-> "panic", msg |-> msg]
QueryOk(v) == [kind |-> "ok", value |-> v]

\* The query result a failed decode leads to: `?` passes an Err on, a panic ends
\* the process.
Propagate(r) == IF Panicked(r) THEN QueryPanic(r.msg) ELSE QueryErr(r.error)

\* A mutant of PushChildren: the right-most pointer is pushed first, the cells'
\* left children after it.
RECURSIVE PushChildrenRightFirst(_, _, _, _)
PushChildrenRightFirst(cells, i, right_most, stack) ==
    IF i = 1 /\ right_most > 0
    THEN PushChildrenRightFirst(cells, i, 0, Append(stack, right_most - 1))
    ELSE IF i > Len(cells) THEN [status |-> "ok", stack |-> stack]
    ELSE PushChildrenRightFirst(cells, i + 1, 0, Append(stack, cells[i].left_child - 1))

\* The InteriorTable arm of every walker (main.rs 72-84, 136-148, 202-214, 302-314):
\* push left_child - 1 for each cell in order, then right_most - 1.
RECURSIVE PushChildren(_, _, _, _)
PushChildren(cells, i, right_most, stack) ==
    IF i > Len(cells)
    THEN IF right_most = 0
         THEN IF overflow_checks
              THEN [status |-> "panic", msg |-> "attempt to subtract with overflow"]
              ELSE [status |-> "ok", stack |-> Append(stack, U32Max)]
         ELSE [status |-> "ok", stack |-> Append(stack, right_most - 1)]
    ELSE IF cells[i].kind # "TableInterior"
    THEN [status |-> "err", error |-> "Unexpected cell type"]
    ELSE IF cells[i].left_child = 0
    THEN IF overflow_checks
         THEN [status |-> "panic", msg |-> "attempt to subtract with overflow"]
         ELSE PushChildren(cells, i + 1, right_most, Append(stack, U32Max))
    ELSE PushChildren(cells, i + 1, right_most, Append(stack, cells[i].left_child - 1))

\* num_tables += 1 on a u16.
U16Inc(n) ==
    IF n < 65535 THEN [status |-> "ok", n |-> n + 1]
    ELSE IF overflow_checks THEN [status |-> "panic", msg |-> "attempt to add with overflow"]
    ELSE [status |-> "ok", n |-> 0]

\* The LeafTable arm of dot_dbinfo (lines 87-97) from cell i on.
RECURSIVE DbinfoLeaf(_, _, _)
DbinfoLeaf(cells, i, n) ==
    IF i > Len(cells) THEN [status |-> "ok", num_tables |-> n]
    ELSE LET cell == cells[i] IN
         IF cell.kind # "TableLeaf" THEN [status |-> "err", error |-> "Unexpected cell type"]
         ELSE IF Len(cell.payload.values) < 1
         THEN [status |-> "panic", msg |-> "index out of bounds"]
         ELSE IF cell.payload.values[1].tag # "N13AndOdd"
         THEN [status |-> "err", error |-> "Unexpected record value"]
         ELSE IF cell.payload.values[1].val = TextTable
         THEN LET inc == U16Inc(n) IN
              IF inc.status # "ok" THEN inc ELSE DbinfoLeaf(cells, i + 1, inc.n)
         ELSE DbinfoLeaf(cells, i + 1, n)

\* A mutant of DbinfoLeaf: rows whose name starts with "sqlite_" are not counted.
RECURSIVE DbinfoLeafSkipSqlite(_, _, _)
DbinfoLeafSkipSqlite(cells, i, n) ==
    IF i > Len(cells) THEN [status |-> "ok", num_tables |-> n]
    ELSE LET cell == cells[i] IN
         IF cell.kind # "TableLeaf" THEN [status |-> "err", error |-> "Unexpected cell type"]
         ELSE IF Len(cell.payload.values) < 1
         THEN [status |-> "panic", msg |-> "index out of bounds"]
         ELSE IF cell.payload.values[1].tag # "N13AndOdd"
         THEN [status |-> "err", error |-> "Unexpected record value"]
         ELSE IF cell.payload.values[1].val = TextTable
                 /\ Len(cell.payload.values) >= 3
                 /\ ~StartsWith(cell.payload.values[3].val, TextSqlitePrefix)
         THEN DbinfoLeafSkipSqlite(cells, i + 1, n + 1)
         ELSE DbinfoLeafSkipSqlite(cells, i + 1, n)

DbinfoScanSkipSqlite(cells, n) == DbinfoLeafSkipSqlite(cells, 1, n)

\* The leaf scan of dot_dbinfo's loop body.
DbinfoScan(cells, n) == DbinfoLeaf(cells, 1, n)

\* The match on btree.header.page_type in dot_dbinfo (lines 70-99).
DbinfoVisit(btree, stack, n) ==
    CASE btree.header.page_type = "InteriorTable" ->
            LET r == PushChildren(btree.cells, 1, btree.header.right_most, stack) IN
            IF r.status = "ok" THEN [status |-> "ok", stack |-> r.stack, num_tables |-> n]
            ELSE r
      [] btree.header.page_type = "LeafTable" ->
            LET r == DbinfoScan(btree.cells, n) IN
            IF r.status = "ok" THEN [status |-> "ok", stack |-> stack, num_tables |-> r.num_tables]
            ELSE r
      [] OTHER -> [status |-> "panic", msg |-> "not yet implemented"]

\* The query result of a failed visit.
VisitFailure(r) == IF r.status = "panic" THEN QueryPanic(r.msg) ELSE QueryErr(r.error)

\* The history of the pages read, after page p has been read.
Fetched(p) == IF Len(fetched) < MaxFetched THEN Append(fetched, p) ELSE fetched

\* The end of a schema loop's body (lines 101-109, 170-178, 282-290) when the stack
\* is not empty: pop, read the page, decode it.  Gives the walker's next position.
FetchAndParse(stack) ==
    LET next_page == stack[Len(stack)]
        rest == SubSeq(stack, 1, Len(stack) - 1)
    IN  IF ~ReadOk(next_page)
        THEN [pc |-> "done", page |-> page, stack |-> rest, fetched |-> fetched,
              result |-> QueryErr("failed to fill whole buffer")]
        ELSE LET bt == ParsePage(next_page + 1, FALSE) IN
             IF Panicked(bt) \/ Failed(bt)
             THEN [pc |-> "done", page |-> next_page + 1, stack |-> rest,
                   fetched |-> Fetched(next_page + 1), result |-> Propagate(bt)]
             ELSE [pc |-> "schema", page |-> next_page + 1, stack |-> rest,
                   fetched |-> Fetched(next_page + 1), result |-> Running]

\* The start of every walker (lines 55-67, 119-131, 185-196): decode the header, read
\* page 1 and decode it as the first page.
OpenDatabase ==
    LET h == DbHeader_parse(header) IN
    IF ~h.ok THEN [pc |-> "done", page |-> 0, fetched |-> <<>>, result |-> QueryErr(h.error)]
    ELSE LET bt == ParsePage(1, TRUE) IN
         IF Panicked(bt) \/ Failed(bt)
         THEN [pc |-> "done", page |-> 1, fetched |-> <<1>>, result |-> Propagate(bt)]
         ELSE [pc |-> "schema", page |-> 1, fetched |-> <<1>>, result |-> Running]

\* dot_dbinfo up to its loop.
DbinfoStart ==
    /\ pc = "start"
    /\ query.cmd = ".dbinfo"
    /\ LET o == OpenDatabase IN
         /\ pc' = o.pc
         /\ page' = o.page
         /\ fetched' = o.fetched
         /\ result' = o.result
    /\ UNCHANGED <<input, output, overflow_checks, header, file, query,
                   remaining_pages, num_tables, tables, rows, rootpage>>

\* One iteration of dot_dbinfo's loop (lines 69-110), and the return after it.
DbinfoLoop ==
    /\ pc = "schema"
    /\ query.cmd = ".dbinfo"
    /\ Len(remaining_pages) < MaxStack
    /\ num_tables < MaxCount
    /\ LET v == DbinfoVisit(ParsePage(page, page = 1), remaining_pages, num_tables) IN
         IF v.status # "ok"
         THEN /\ pc' = "done"
              /\ result' = VisitFailure(v)
              /\ UNCHANGED <<page, remaining_pages, num_tables, fetched>>
         ELSE IF v.stack = <<>>
         THEN /\ pc' = "done"
              /\ result' = QueryOk([db_page_size |-> DbHeader_parse(header).page_size,
                                    num_tables |-> v.num_tables])
              /\ num_tables' = v.num_tables
              /\ remaining_pages' = v.stack
              /\ UNCHANGED <<page, fetched>>
         ELSE LET f == FetchAndParse(v.stack) IN
              /\ pc' = f.pc
              /\ page' = f.page
              /\ remaining_pages' = f.stack
              /\ fetched' = f.fetched
              /\ result' = f.result
              /\ num_tables' = v.num_tables
    /\ UNCHANGED <<input, output, overflow_checks, header, file, query, tables, rows,
                   rootpage>>

(***************************************************************************)
(* The headers the checks run on.                                          *)
(***************************************************************************)
\* A header every check of DbHeader::parse accepts: page size 4096, format versions
\* 1, payload fractions 64/32/32, empty freelist, schema format 4, UTF-8.
GoodHeader ==
    [i \in 1..HeaderLen |->
        IF i <= 16 THEN MAGIC[i]
        ELSE CASE i = 17 -> 16
               [] i = 19 -> 1
               [] i = 20 -> 1
               [] i = 22 -> 64
               [] i = 23 -> 32
               [] i = 24 -> 32
               [] i = 48 -> 4
               [] i = 60 -> 1
               [] OTHER -> 0]

\* h with the byte at offset i set to b.
WithByte(h, i, b) == [h EXCEPT ![i + 1] = b]

\* h with the raw page size r at offset 16.
WithPageSize(h, r) == WithByte(WithByte(h, 16, r \div 256), 17, r % 256)

\* Every raw u16 page size in an otherwise good header.
PageSizeHeaders == {WithPageSize(GoodHeader, r) : r \in 0..65535}

\* The values an altered byte takes.
AlteredBytes == {0, 1, 32, 83, 255}

\* The headers whose 84 bytes after the magic are h's and whose magic differs from
\* MAGIC in exactly one position.
AlteredMagic(h) == {WithByte(h, i, b) : i \in 0..15, b \in AlteredBytes} \ {h}

\* Headers that fail one of the checks after the page size.
BadFieldHeaders ==
    {WithByte(GoodHeader, 18, 3), WithByte(GoodHeader, 19, 0), WithByte(GoodHeader, 21, 32),
     WithByte(GoodHeader, 22, 64), WithByte(GoodHeader, 23, 0), WithByte(GoodHeader, 35, 2),
     WithByte(GoodHeader, 39, 1), WithByte(GoodHeader, 47, 5), WithByte(GoodHeader, 59, 0),
     WithByte(GoodHeader, 59, 4)}

\* Remaining header bytes that are all zero, all 255, or a good header's.
RestOfHeader ==
    {GoodHeader, [i \in 1..HeaderLen |-> IF i <= 16 THEN MAGIC[i] ELSE 0],
     [i \in 1..HeaderLen |-> IF i <= 16 THEN MAGIC[i] ELSE 255]}

HeaderInputs ==
    {[fn |-> "DbHeader::parse", bytes |-> h] :
        h \in PageSizeHeaders \cup BadFieldHeaders \cup RestOfHeader
              \cup UNION {AlteredMagic(r) : r \in RestOfHeader}}

\* if !n.starts_with("sqlite_") (line 162).
TablesKeep(n) == ~StartsWith(n, TextSqlitePrefix)

\* A mutant of TablesPush: the name is put in front of what is there.
TablesPushFront(acc, n) == <<" ">> \o n \o acc

\* tables.push_str(&format!(" {}", n)) (line 163).
TablesPush(acc, n) == acc \o <<" ">> \o n

\* The LeafTable arm of dot_tables (lines 151-166) from cell i on.
RECURSIVE TablesLeaf(_, _, _)
TablesLeaf(cells, i, acc) ==
    IF i > Len(cells) THEN [status |-> "ok", tables |-> acc]
    ELSE LET cell == cells[i] IN
         IF cell.kind # "TableLeaf" THEN [status |-> "err", error |-> "Unexpected cell type"]
         ELSE IF Len(cell.payload.values) < 1
         THEN [status |-> "panic", msg |-> "index out of bounds"]
         ELSE IF cell.payload.values[1].tag # "N13AndOdd"
         THEN [status |-> "err", error |-> "Unexpected record value"]
         ELSE IF cell.payload.values[1].val # TextTable
         THEN TablesLeaf(cells, i + 1, acc)
         ELSE IF Len(cell.payload.values) < 3
         THEN [status |-> "panic", msg |-> "index out of bounds"]
         ELSE IF cell.payload.values[3].tag # "N13AndOdd"
         THEN [status |-> "err", error |-> "Unexpected record value"]
         ELSE IF TablesKeep(cell.payload.values[3].val)
         THEN TablesLeaf(cells, i + 1, TablesPush(acc, cell.payload.values[3].val))
         ELSE TablesLeaf(cells, i + 1, acc)

\* The match on btree.header.page_type in dot_tables (lines 134-168).
TablesVisit(btree, stack, acc) ==
    CASE btree.header.page_type = "InteriorTable" ->
            LET r == PushChildren(btree.cells, 1, btree.header.right_most, stack) IN
            IF r.status = "ok" THEN [status |-> "ok", stack |-> r.stack, tables |-> acc]
            ELSE r
      [] btree.header.page_type = "LeafTable" ->
            LET r == TablesLeaf(btree.cells, 1, acc) IN
            IF r.status = "ok" THEN [status |-> "ok", stack |-> stack, tables |-> r.tables]
            ELSE r
      [] OTHER -> [status |-> "panic", msg |-> "not yet implemented"]

\* dot_tables up to its loop.
TablesStart ==
    /\ pc = "start"
    /\ query.cmd = ".tables"
    /\ LET o == OpenDatabase IN
         /\ pc' = o.pc
         /\ page' = o.page
         /\ fetched' = o.fetched
         /\ result' = o.result
    /\ UNCHANGED <<input, output, overflow_checks, header, file, query,
                   remaining_pages, num_tables, tables, rows, rootpage>>

\* One iteration of dot_tables' loop (lines 133-179), and the return after it.
TablesLoop ==
    /\ pc = "schema"
    /\ query.cmd = ".tables"
    /\ Len(remaining_pages) < MaxStack
    /\ Len(tables) < MaxText
    /\ LET v == TablesVisit(ParsePage(page, page = 1), remaining_pages, tables) IN
         IF v.status # "ok"
         THEN /\ pc' = "done"
              /\ result' = VisitFailure(v)
              /\ UNCHANGED <<page, remaining_pages, tables, fetched>>
         ELSE IF v.stack = <<>>
         THEN /\ pc' = "done"
              /\ result' = QueryOk(Trim(v.tables))
              /\ tables' = v.tables
              /\ remaining_pages' = v.stack
              /\ UNCHANGED <<page, fetched>>
         ELSE LET f == FetchAndParse(v.stack) IN
              /\ pc' = f.pc
              /\ page' = f.page
              /\ remaining_pages' = f.stack
              /\ fetched' = f.fetched
              /\ result' = f.result
              /\ tables' = v.tables
    /\ UNCHANGED <<input, output, overflow_checks, header, file, query, num_tables, rows,
                   rootpage>>

\* The serial types count_rows accepts for the rootpage column (lines 231-274).
IntegerSerialTags == {"I8", "I16", "I24", "I32", "I48", "I64"}

\* if n == table (line 228).
CountMatches(values, table) == values[3].val = table

\* `let RecordValue::I8(rp) = payload.values[3] else { panic!(...) }` and its like in
\* the arms of the match on payload.serial_types[3] (lines 232-274): the value is
\* the variant of the serial type.
CheckedSerialType(payload) == payload.values[4].tag = payload.serial_types[4].tag

\* The row found: the match on payload.serial_types[3] (lines 230-275).  The rootpage
\* values of the model are small, so `rp as u64 - 1` is rp - 1 unless rp is 0, and
\* a negative rp becomes a page number beyond any file.
CountFound(payload) ==
    IF Len(payload.serial_types) < 4 THEN [status |-> "panic", msg |-> "index out of bounds"]
    ELSE IF payload.serial_types[4].tag \notin IntegerSerialTags
    THEN [status |-> "err", error |-> "Unexpected serial type for rootpage"]
    ELSE IF ~CheckedSerialType(payload)
    THEN [status |-> "panic", msg |-> "We checked the SerialType"]
    ELSE IF payload.values[4].val = 0
    THEN IF overflow_checks
         THEN [status |-> "panic", msg |-> "attempt to subtract with overflow"]
         ELSE [status |-> "found", rootpage |-> U32Max]
    ELSE IF payload.values[4].val < 0
    THEN [status |-> "found", rootpage |-> U32Max]
    ELSE [status |-> "found", rootpage |-> payload.values[4].val - 1]

\* The LeafTable arm of count_rows' schema loop (lines 217-278) from cell i on.
RECURSIVE CountLeaf(_, _, _)
CountLeaf(cells, i, table) ==
    IF i > Len(cells) THEN [status |-> "ok"]
    ELSE LET cell == cells[i] IN
         IF cell.kind # "TableLeaf" THEN [status |-> "err", error |-> "Unexpected cell type"]
         ELSE IF Len(cell.payload.values) < 1
         THEN [status |-> "panic", msg |-> "index out of bounds"]
         ELSE IF cell.payload.values[1].tag # "N13AndOdd"
         THEN [status |-> "err", error |-> "Unexpected record value"]
         ELSE IF cell.payload.values[1].val # TextTable
         THEN CountLeaf(cells, i + 1, table)
         ELSE IF Len(cell.payload.values) < 3
         THEN [status |-> "panic", msg |-> "index out of bounds"]
         ELSE IF cell.payload.values[3].tag # "N13AndOdd"
         THEN [status |-> "err", error |-> "Unexpected record value"]
         ELSE IF CountMatches(cell.payload.values, table)
         THEN CountFound(cell.payload)
         ELSE CountLeaf(cells, i + 1, table)

\* The match on btree.header.page_type in count_rows' schema loop (lines 200-280).
CountVisit(btree, stack, table) ==
    CASE btree.header.page_type = "InteriorTable" ->
            PushChildren(btree.cells, 1, btree.header.right_most, stack)
      [] btree.header.page_type = "LeafTable" ->
            LET r == CountLeaf(btree.cells, 1, table) IN
            IF r.status = "ok" THEN [status |-> "ok", stack |-> stack] ELSE r
      [] OTHER -> [status |-> "panic", msg |-> "not yet implemented"]

\* A mutant of RowsAdd: a leaf page counts as one row.
RowsAddOne(n, btree) == n + 1

\* rows += btree.header.num_cells as usize (line 317).
RowsAdd(n, btree) == n + btree.header.num_cells

\* The match on btree.header.page_type in count_rows' second loop (lines 300-319).
RowsVisit(btree, stack, n) ==
    CASE btree.header.page_type = "InteriorTable" ->
            LET r == PushChildren(btree.cells, 1, btree.header.right_most, stack) IN
            IF r.status = "ok" THEN [status |-> "ok", stack |-> r.stack, rows |-> n] ELSE r
      [] btree.header.page_type = "LeafTable" ->
            [status |-> "ok", stack |-> stack, rows |-> RowsAdd(n, btree)]
      [] OTHER -> [status |-> "panic", msg |-> "not yet implemented"]

\* A mutant of TableNotFound: a missing table has no rows.
TableNotFoundIsEmpty == QueryOk(0)

\* bail!("Table not found in database") (line 283).
TableNotFound == QueryErr("Table not found in database")

\* A mutant of ClearPending: the pages pending from the schema walk stay on the stack.
ClearPendingKeeps(stack) == stack

\* remaining_pages.clear() (line 297).
ClearPending(stack) == <<>>

\* count_rows up to its first loop.
CountStart ==
    /\ pc = "start"
    /\ query.cmd = "SELECT COUNT(*) FROM"
    /\ LET o == OpenDatabase IN
         /\ pc' = o.pc
         /\ page' = o.page
         /\ fetched' = o.fetched
         /\ result' = o.result
    /\ UNCHANGED <<input, output, overflow_checks, header, file, query,
                   remaining_pages, num_tables, tables, rows, rootpage>>

\* One iteration of count_rows' schema loop (lines 199-291); when the row is found,
\* the statements up to the second loop (lines 293-297) as well.
CountSchemaLoop ==
    /\ pc = "schema"
    /\ query.cmd = "SELECT COUNT(*) FROM"
    /\ Len(remaining_pages) < MaxStack
    /\ LET v == CountVisit(ParsePage(page, page = 1), remaining_pages, query.table) IN
         CASE v.status = "found" ->
                /\ rootpage' = [set |-> TRUE, page |-> v.rootpage]
                /\ IF ReadOk(v.rootpage)
                   THEN /\ pc' = "rows"
                        /\ page' = v.rootpage + 1
                        /\ fetched' = Fetched(v.rootpage + 1)
                        /\ remaining_pages' = ClearPending(remaining_pages)
                        /\ result' = Running
                   ELSE /\ pc' = "done"
                        /\ result' = IF v.rootpage = U32Max /\ overflow_checks
                                     THEN QueryPanic("attempt to multiply with overflow")
                                     ELSE QueryErr("failed to fill whole buffer")
                        /\ UNCHANGED <<page, fetched, remaining_pages>>
           [] v.status = "ok" /\ v.stack = <<>> ->
                /\ pc' = "done"
                /\ result' = TableNotFound
                /\ remaining_pages' = v.stack
                /\ UNCHANGED <<page, fetched, rootpage>>
           [] v.status = "ok" /\ v.stack # <<>> ->
                LET f == FetchAndParse(v.stack) IN
                /\ pc' = f.pc
                /\ page' = f.page
                /\ remaining_pages' = f.stack
                /\ fetched' = f.fetched
                /\ result' = f.result
                /\ UNCHANGED rootpage
           [] OTHER ->
                /\ pc' = "done"
                /\ result' = VisitFailure(v)
                /\ UNCHANGED <<page, fetched, remaining_pages, rootpage>>
    /\ UNCHANGED <<input, output, overflow_checks, header, file, query, num_tables,
                   tables, rows>>

\* One iteration of count_rows' second loop (lines 298-329), and the return after it.
CountRowsLoop ==
    /\ pc = "rows"
    /\ query.cmd = "SELECT COUNT(*) FROM"
    /\ Len(remaining_pages) < MaxStack
    /\ rows < MaxCount
    /\ LET bt == ParsePage(page, FALSE) IN
         IF Panicked(bt) \/ Failed(bt)
         THEN /\ pc' = "done"
              /\ result' = Propagate(bt)
              /\ UNCHANGED <<page, remaining_pages, rows, fetched>>
         ELSE LET v == RowsVisit(bt, remaining_pages, rows) IN
              IF v.status # "ok"
              THEN /\ pc' = "done"
                   /\ result' = VisitFailure(v)
                   /\ UNCHANGED <<page, remaining_pages, rows, fetched>>
              ELSE IF v.stack = <<>>
              THEN /\ pc' = "done"
                   /\ result' = QueryOk(v.rows)
                   /\ rows' = v.rows
                   /\ remaining_pages' = v.stack
                   /\ UNCHANGED <<page, fetched>>
              ELSE LET next_page == v.stack[Len(v.stack)] IN
                   /\ remaining_pages' = SubSeq(v.stack, 1, Len(v.stack) - 1)
                   /\ rows' = v.rows
                   /\ IF ReadOk(next_page)
                      THEN /\ page' = next_page + 1
                           /\ fetched' = Fetched(next_page + 1)
                           /\ UNCHANGED <<pc, result>>
                      ELSE /\ pc' = "done"
                           /\ result' = QueryErr("failed to fill whole buffer")
                           /\ UNCHANGED <<page, fetched>>
    /\ UNCHANGED <<input, output, overflow_checks, header, file, query, num_tables,
                   tables, rootpage>>

(***************************************************************************)
(* Database files, page by page, in decoded form.                          *)
(***************************************************************************)
\* RecordValue::N13AndOdd(s) and its serial type.
Txt(s) == [tag |-> "N13AndOdd", val |-> s]
TxtType(s) == [panicked |-> FALSE, tag |-> "N13AndOdd", n |-> 13 + 2 * Len(s)]
\* RecordValue::I8(n) and its serial type.
Int8(n) == [tag |-> "I8", val |-> n]
Int8Type == [panicked |-> FALSE, tag |-> "I8"]

\* A leaf cell holding a row of sqlite_schema: type, name, tbl_name, rootpage, sql.
SchemaRow(type, name, root) ==
    [kind |-> "TableLeaf",
     payload |-> [serial_types |-> <<TxtType(type), TxtType(name), TxtType(name), Int8Type,
                                      TxtType(<<>>)>>,
                  values |-> <<Txt(type), Txt(name), Txt(name), Int8(root), Txt(<<>>)>>]]

\* A leaf cell holding a row of a user table: one integer column.
DataRow ==
    [kind |-> "TableLeaf",
     payload |-> [serial_types |-> <<Int8Type>>, values |-> <<Int8(7)>>]]

LeafPage(cells) == [page_type |-> "LeafTable", cells |-> cells, right_most |-> 0]

InteriorPage(children, right_most) ==
    [page_type |-> "InteriorTable",
     cells |-> [i \in 1..Len(children) |-> [kind |-> "TableInterior", left_child |-> children[i]]],
     right_most |-> right_most]

IndexPage(page_type, num_cells) ==
    [page_type |-> page_type,
     cells |-> [i \in 1..num_cells |->
                  [kind |-> IF page_type = "LeafIndex" THEN "IndexLeaf" ELSE "IndexInterior"]],
     right_most |-> 0]

\* A page whose first byte is no page type.
InvalidPage == [page_type |-> "Invalid", cells |-> <<>>, right_most |-> 0]

\* The cells a leaf page holds at most, and the cells of an interior page.
MaxCells == 2
MaxInteriorCells == 1

\* Interior pages over pointers Ptrs, and the two whose pointer 0 underflows.
InteriorPages(Ptrs) ==
    {InteriorPage(ch, r) : ch \in SeqsUpTo(Ptrs, MaxInteriorCells), r \in Ptrs}
    \cup {InteriorPage(<<>>, 0), InteriorPage(<<0>>, 2)}

LeafPages(Rows) == {LeafPage(c) : c \in SeqsUpTo(Rows, MaxCells)}

\* The headers of the walkers' files: page sizes 4096 and 65536.
WalkHeaders == {GoodHeader, WithPageSize(GoodHeader, 1)}

\* The on-disk page numbers file page p points to, in the order of its cells, the
\* right-most pointer last.
ChildrenOf(f, p) ==
    IF f[p].page_type = "InteriorTable"
    THEN [i \in 1..(Len(f[p].cells) + 1) |->
            IF i <= Len(f[p].cells) THEN f[p].cells[i].left_child ELSE f[p].right_most]
    ELSE <<>>

\* The pages of f reachable from root in at most n pointer steps.
RECURSIVE ReachIn(_, _, _)
ReachIn(f, root, n) ==
    IF root \notin DOMAIN f THEN {}
    ELSE IF n = 0 THEN {root}
    ELSE {root} \cup UNION {ReachIn(f, ChildrenOf(f, root)[i], n - 1) :
                              i \in DOMAIN ChildrenOf(f, root)}

Reachable(f, root) == ReachIn(f, root, Len(f))

\* The sum of g[x] over x in S.
RECURSIVE SumOver(_, _)
SumOver(S, g) ==
    IF S = {} THEN 0 ELSE LET x == CHOOSE x \in S : TRUE IN g[x] + SumOver(S \ {x}, g)

\* The pointers from the pages reachable from root to page q, with multiplicity.
ParentCount(f, root, q) ==
    LET count == [p \in Reachable(f, root) |->
                    Cardinality({i \in DOMAIN ChildrenOf(f, p) : ChildrenOf(f, p)[i] = q})]
    IN  SumOver(Reachable(f, root), count)

\* The pages reachable from root form a finite tree of table pages: page 1, whose
\* buffer read from offset 0 starts with the file header and not with a page header,
\* is the root or is not reached; every pointer leads to a page of the file, every
\* reached page is an interior-table or leaf-table page, and every
\* page but the root is pointed to exactly once, the root never.
IsTableTree(f, root, root_is_first) ==
    /\ root \in DOMAIN f
    /\ root = 1 <=> root_is_first
    /\ 1 \in Reachable(f, root) => root = 1
    /\ \A p \in Reachable(f, root) :
          /\ f[p].page_type \in TablePageTypes
          /\ \A i \in DOMAIN ChildrenOf(f, p) : ChildrenOf(f, p)[i] \in DOMAIN f
          /\ ParentCount(f, root, p) = (IF p = root THEN 0 ELSE 1)

(***************************************************************************)
(* The inputs of Varint::parse: canonical encodings followed by arbitrary  *)
(* bytes, and truncated encodings.                                         *)
(***************************************************************************)
\* How many bytes follow an encoding in the slice, at most.
MaxExtra == 2
\* The bytes that may follow an encoding.
ExtraBytes == {0, 129, 255}
\* The bytes of a truncated encoding: each has its high bit set.
ContinuationBytes == {128, 255}

\* The i64 whose highest set bit is bit top-1 (none when top = 0) and whose lower
\* bits follow the pattern fill.
I64Sample(top, fill) ==
    [i \in 1..I64Bits |->
        LET pos == I64Bits - i IN
        IF pos >= top THEN 0
        ELSE IF pos = top - 1 THEN 1
        ELSE IF fill = "ones" THEN 1
        ELSE IF fill = "alt" THEN pos % 2
        ELSE 0]

I64Samples == {I64Sample(top, fill) : top \in 0..I64Bits, fill \in {"zeros", "ones", "alt"}}

\* The canonical SQLite encoding of a 64-bit value (the file format's definition,
\* as sqlite3PutVarint writes it): 9 bytes when any of the top 8 bits is set, seven
\* bits in each of the first 8 bytes and eight in the last; otherwise the fewest
\* 7-bit groups that hold the value, every byte but the last with its high bit set.
CanonicalVarint(v) ==
    IF \E i \in 1..8 : v[i] = 1
    THEN [j \in 1..9 |->
            IF j <= 8 THEN 128 + BitsToNat(SubSeq(v, 7 * (j - 1) + 1, 7 * j))
            ELSE BitsToNat(SubSeq(v, 57, 64))]
    ELSE LET group(j) == BitsToNat(SubSeq(v, 8 + 7 * (j - 1) + 1, 8 + 7 * j))
             used == {j \in 1..8 : group(j) # 0} \cup {8}
             first == CHOOSE j \in used : \A k \in used : j <= k
         IN  [j \in 1..(9 - first) |->
                LET g == first + j - 1 IN
                group(g) + (IF g < 8 THEN 128 ELSE 0)]

VarintInputs ==
    {[fn |-> "Varint::parse", kind |-> "canonical", value |-> v,
      bytes |-> CanonicalVarint(v) \o e] : v \in I64Samples, e \in SeqsUpTo(ExtraBytes, MaxExtra)}
    \cup
    {[fn |-> "Varint::parse", kind |-> "truncated", value |-> I64Zero, bytes |-> b] :
        b \in SeqsUpTo(ContinuationBytes, VarintMaxBytes - 1)}

\* The walkers' variables in the specifications of the pure functions.
WalkerIdle ==
    /\ header = <<>>
    /\ file = <<>>
    /\ query = [cmd |-> "none"]
    /\ pc = "idle"
    /\ page = 0
    /\ remaining_pages = <<>>
    /\ num_tables = 0
    /\ tables = <<>>
    /\ rows = 0
    /\ rootpage = NoRootPage
    /\ fetched = <<>>
    /\ result = [kind |-> "running"]

InitVarint ==
    /\ input \in VarintInputs
    /\ output = NoOutput
    /\ overflow_checks = TRUE
    /\ WalkerIdle

\* A call of Varint::parse on the input slice.
VarintCall ==
    /\ input.fn = "Varint::parse"
    /\ ~output.called
    /\ output' = Varint_parse(input.bytes)
    /\ UNCHANGED <<input, overflow_checks, walkerVars>>

NextVarint == VarintCall

SpecVarint == InitVarint /\ [][NextVarint]_vars

\* C5: Varint::parse applied to the canonical encoding of a 64-bit value v, with or
\* without bytes after it, returns v and reports the encoding's length as consumed.
C5_VarintRoundTrip ==
    (input.fn = "Varint::parse" /\ input.kind = "canonical" /\ output.called) =>
        /\ output.value = input.value
        /\ output.bytes_read = Len(CanonicalVarint(input.value))

\* A 9-byte encoding (a value with one of its top 8 bits set, here a negative one)
\* followed by extra bytes has been decoded.
C5_Witness ==
    /\ input.fn = "Varint::parse" /\ input.kind = "canonical" /\ output.called
    /\ input.value[1] = 1
    /\ Len(CanonicalVarint(input.value)) = 9
    /\ Len(input.bytes) > 9
    /\ output.bytes_read = 9

\* C6: decoding an empty slice, or a slice of fewer than 9 bytes all of which have
\* the high bit set, does not return a (value, bytes consumed) pair: it reports an
\* error.
C6_TruncatedIsError ==
    (input.fn = "Varint::parse" /\ input.kind = "truncated" /\ output.called) =>
        "value" \notin DOMAIN output

(***************************************************************************)
(* DbHeader::parse on its own                                              *)
(***************************************************************************)
InitHeader ==
    /\ input \in HeaderInputs
    /\ output = NoOutput
    /\ overflow_checks = TRUE
    /\ WalkerIdle

\* A call of DbHeader::parse on the input bytes.
HeaderCall ==
    /\ input.fn = "DbHeader::parse"
    /\ ~output.called
    /\ output' = DbHeader_parse(input.bytes)
    /\ UNCHANGED <<input, overflow_checks, walkerVars>>

NextHeader == HeaderCall

SpecHeader == InitHeader /\ [][NextHeader]_vars

\* The raw page size of the input header, read as the file format defines it.
RawPageSize == At(input.bytes, 16) * 256 + At(input.bytes, 17)

\* The page sizes the format allows to be stored as they are.
StoredPageSizes == {512, 1024, 2048, 4096, 8192, 16384, 32768}

\* C7: in a header that is otherwise good, raw page size 1 decodes to 65536, a raw
\* power of two from 512 to 32768 decodes to itself, and every other raw value makes
\* DbHeader::parse fail.
C7_PageSizeDecoding ==
    (input.fn = "DbHeader::parse" /\ output.called
        /\ input.bytes = WithPageSize(GoodHeader, RawPageSize)) =>
        /\ RawPageSize = 1 => (output.ok /\ output.page_size = 65536)
        /\ RawPageSize \in StoredPageSizes => (output.ok /\ output.page_size = RawPageSize)
        /\ RawPageSize \notin StoredPageSizes \cup {1} =>
              (~output.ok /\ output.error \in {"Page size is not in valid range",
                                                "Page size is not a power of two"})

\* Raw 513 (in range, no power of two) has been rejected.
C7_Witness ==
    /\ input.fn = "DbHeader::parse" /\ output.called
    /\ input.bytes = WithPageSize(GoodHeader, 513)
    /\ ~output.ok
    /\ output.error = "Page size is not a power of two"

(***************************************************************************)
(* SerialType::from and SerialType::len on their own                       *)
(***************************************************************************)
\* The descriptors run from -MaxNegDescriptor to MaxDescriptor.
MaxDescriptor == 60
MaxNegDescriptor == 4

SerialInputs ==
    {[fn |-> "SerialType::from", value |-> n] : n \in (0 - MaxNegDescriptor)..MaxDescriptor}

InitSerial ==
    /\ input \in SerialInputs
    /\ output = NoOutput
    /\ overflow_checks = TRUE
    /\ WalkerIdle

\* `let st: SerialType = st.into()` followed by `st.len()`, as Record::parse uses them.
SerialCall ==
    /\ input.fn = "SerialType::from"
    /\ ~output.called
    /\ LET st == SerialType_from(input.value) IN
         output' = IF st.panicked THEN st
                   ELSE [called |-> TRUE, panicked |-> FALSE, st |-> st, len |-> SerialType_len(st)]
    /\ UNCHANGED <<input, overflow_checks, walkerVars>>

NextSerial == SerialCall

SpecSerial == InitSerial /\ [][NextSerial]_vars

\* The serial types and content lengths of descriptors 0..9, as the claim lists them.
FixedSerialTags == <<"Null", "I8", "I16", "I24", "I32", "I48", "I64", "F64", "Zero", "One">>
FixedSerialLens == <<0, 1, 2, 3, 4, 6, 8, 8, 0, 0>>

\* C10: descriptors 0..9 map to Null, I8, I16, I24, I32, I48, I64, F64, Zero, One with
\* content lengths 0,1,2,3,4,6,8,8,0,0; an even descriptor n >= 12 maps to a blob of
\* length (n-12)/2 and an odd descriptor n >= 13 to a text of length (n-13)/2.
C10_SerialTypeLengths ==
    (input.fn = "SerialType::from" /\ output.called) =>
        LET n == input.value IN
        /\ n \in 0..9 =>
              /\ ~output.panicked
              /\ output.st.tag = FixedSerialTags[n + 1]
              /\ output.len = FixedSerialLens[n + 1]
        /\ (n >= 12 /\ n % 2 = 0) =>
              /\ ~output.panicked
              /\ output.st.tag = "N12AndEven"
              /\ 2 * output.len = n - 12
        /\ (n >= 13 /\ n % 2 = 1) =>
              /\ ~output.panicked
              /\ output.st.tag = "N13AndOdd"
              /\ 2 * output.len = n - 13

\* Descriptor 27 has been mapped to a text of length 7.
C10_Witness ==
    /\ input.fn = "SerialType::from" /\ output.called
    /\ input.value = 27
    /\ output.st.tag = "N13AndOdd"
    /\ output.len = 7

(***************************************************************************)
(* dot_dbinfo                                                              *)
(***************************************************************************)
\* The pages of a schema file.
MaxSchemaPages == 3

TextA == <<"a">>
TextSqliteS == <<"s", "q", "l", "i", "t", "e", "_", "s">>

\* A row whose column 0 is no text.
NonTextRow ==
    [kind |-> "TableLeaf",
     payload |-> [serial_types |-> <<Int8Type>>, values |-> <<Int8(1)>>]]

DbinfoRows ==
    {SchemaRow(TextTable, TextA, 2), SchemaRow(TextTable, TextSqliteS, 3),
     SchemaRow(TextIndex, TextA, 3)}

SchemaPages(Rows, n) ==
    LeafPages(Rows) \cup {LeafPage(<<NonTextRow>>)} \cup InteriorPages(1..(n + 1))
    \cup {IndexPage("LeafIndex", 0), InvalidPage}

\* Whether a pointer of f is 0, so that subtracting 1 from it overflows.  On a file
\* without one the release build computes what the debug build computes.
HasZeroPointer(f) ==
    \E p \in DOMAIN f :
        \/ \E i \in DOMAIN ChildrenOf(f, p) : ChildrenOf(f, p)[i] = 0
        \/ /\ f[p].page_type = "LeafTable"
           /\ \E i \in DOMAIN f[p].cells :
                 /\ Len(f[p].cells[i].payload.values) >= 4
                 /\ f[p].cells[i].payload.values[4].val = 0

\* The walkers' variables before a query runs.
WalkerInit(q) ==
    /\ input = NoInput
    /\ output = NoOutput
    /\ overflow_checks \in BOOLEAN
    /\ overflow_checks \/ HasZeroPointer(file)
    /\ query = q
    /\ pc = "start"
    /\ page = 0
    /\ remaining_pages = <<>>
    /\ num_tables = 0
    /\ tables = <<>>
    /\ rows = 0
    /\ rootpage = NoRootPage
    /\ fetched = <<>>
    /\ result = Running

InitDbinfo ==
    /\ header \in WalkHeaders
    /\ file \in [1..MaxSchemaPages -> SchemaPages(DbinfoRows, MaxSchemaPages)]
    /\ WalkerInit([cmd |-> ".dbinfo"])

NextDbinfo == DbinfoStart \/ DbinfoLoop

SpecDbinfo == InitDbinfo /\ [][NextDbinfo]_vars

\* The leaf cells of page p whose record column 0 is the text "table".
TableCellsOf(f, p) ==
    IF f[p].page_type # "LeafTable" THEN 0
    ELSE Cardinality({i \in DOMAIN f[p].cells :
                        f[p].cells[i].payload.values[1] = Txt(TextTable)})

\* Every leaf cell of the pages reachable from root has a text in column 0.
TextTypedFrom(f, root) ==
    \A p \in Reachable(f, root) :
        f[p].page_type = "LeafTable" =>
            \A i \in DOMAIN f[p].cells : f[p].cells[i].payload.values[1].tag = "N13AndOdd"

\* C4: on a schema tree of table pages rooted at page 1 whose rows have a text in
\* column 0, dot_dbinfo returns the number of leaf cells, over every leaf page of the
\* tree, whose column 0 is "table" (names starting with "sqlite_" included), together
\* with the page size decoded from the header.
C4_DbinfoCountsTableCells ==
    (query.cmd = ".dbinfo" /\ pc = "done" /\ IsTableTree(file, 1, TRUE)
        /\ TextTypedFrom(file, 1)) =>
        LET count == [p \in Reachable(file, 1) |-> TableCellsOf(file, p)] IN
        /\ result.kind = "ok"
        /\ result.value.num_tables = SumOver(Reachable(file, 1), count)
        /\ result.value.db_page_size =
              (IF U16FromBE(At(header, 16), At(header, 17)) = 1 THEN 65536
               ELSE U16FromBE(At(header, 16), At(header, 17)))

\* dot_dbinfo has returned from a schema tree of three pages that holds a table named
\* sqlite_s: it is counted.
C4_Witness ==
    /\ query.cmd = ".dbinfo" /\ pc = "done" /\ IsTableTree(file, 1, TRUE)
    /\ Reachable(file, 1) = {1, 2, 3}
    /\ \E p \in {2, 3} : \E i \in DOMAIN file[p].cells :
          /\ file[p].cells[i].kind = "TableLeaf"
          /\ Len(file[p].cells[i].payload.values) >= 3
          /\ file[p].cells[i].payload.values[3] = Txt(TextSqliteS)
    /\ result.kind = "ok"
    /\ result.value.num_tables >= 2
    /\ result.value.db_page_size = 65536

(***************************************************************************)
(* dot_tables                                                              *)
(***************************************************************************)
TextSpaceB == <<" ", "b">>

TablesRows ==
    {SchemaRow(TextTable, TextA, 2), SchemaRow(TextTable, TextSqliteS, 3),
     SchemaRow(TextTable, TextSpaceB, 3), SchemaRow(TextIndex, TextA, 3)}

InitTables ==
    /\ header = GoodHeader
    /\ file \in [1..MaxSchemaPages -> SchemaPages(TablesRows, MaxSchemaPages)]
    /\ WalkerInit([cmd |-> ".tables"])

NextTables == TablesStart \/ TablesLoop

SpecTables == InitTables /\ [][NextTables]_vars

\* The pages of the tree under p in the order a LIFO walk fetches them: p, then the
\* subtree of the right-most pointer, then those of the cells from the last to the
\* first.
RECURSIVE VisitOrder(_, _, _)
VisitOrder(f, p, fuel) ==
    IF fuel = 0 \/ p \notin DOMAIN f THEN <<>>
    ELSE LET ch == ChildrenOf(f, p)
             sub[k \in 0..Len(ch)] ==
                 IF k = 0 THEN <<>>
                 ELSE VisitOrder(f, ch[k], fuel - 1) \o sub[k - 1]
         IN  <<p>> \o sub[Len(ch)]

\* The names (column 2) of the cells of leaf page p whose column 0 is "table" and
\* whose name does not start with "sqlite_", in cell order.
ListedNamesOf(f, p) ==
    IF f[p].page_type # "LeafTable" THEN <<>>
    ELSE LET c == f[p].cells
             from[i \in 1..(Len(c) + 1)] ==
                 IF i > Len(c) THEN <<>>
                 ELSE IF c[i].payload.values[1] = Txt(TextTable)
                         /\ ~StartsWith(c[i].payload.values[3].val, TextSqlitePrefix)
                 THEN <<c[i].payload.values[3].val>> \o from[i + 1]
                 ELSE from[i + 1]
         IN  from[1]

\* The listed names of the pages in order.
RECURSIVE ListedNames(_, _)
ListedNames(f, order) ==
    IF order = <<>> THEN <<>>
    ELSE ListedNamesOf(f, Head(order)) \o ListedNames(f, Tail(order))

\* The names joined by single spaces.
RECURSIVE JoinBySpaces(_)
JoinBySpaces(names) ==
    IF names = <<>> THEN <<>>
    ELSE IF Len(names) = 1 THEN names[1]
    ELSE names[1] \o <<" ">> \o JoinBySpaces(Tail(names))

\* dot_tables has returned from a schema tree whose rows have a text in column 0.
TablesReturned ==
    /\ query.cmd = ".tables" /\ pc = "done"
    /\ IsTableTree(file, 1, TRUE)
    /\ TextTypedFrom(file, 1)

ExpectedNames == ListedNames(file, VisitOrder(file, 1, NumPages))

\* C3 as stated: dot_tables returns the names of the schema cells of type "table"
\* that do not start with "sqlite_", each once, in visitation order, joined by single
\* spaces, with no leading or trailing space.
C3_TablesJoined ==
    TablesReturned =>
        /\ result.kind = "ok"
        /\ result.value = JoinBySpaces(ExpectedNames)
        /\ result.value # <<>> =>
              (result.value[1] # " " /\ result.value[Len(result.value)] # " ")

\* C3 as amended: dot_tables returns those names, in visitation order, joined by
\* single spaces, with the whitespace at the start and the end of the joined string
\* removed.
C3_TablesJoinedAndTrimmed ==
    TablesReturned =>
        /\ result.kind = "ok"
        /\ result.value = Trim(JoinBySpaces(ExpectedNames))

\* dot_tables has returned two names read from two leaf pages under an interior
\* schema root, the right-most page's name first.
C3_Witness ==
    /\ TablesReturned
    /\ file[1].page_type = "InteriorTable"
    /\ Reachable(file, 1) = {1, 2, 3}
    /\ Len(ExpectedNames) >= 2
    /\ ExpectedNames[1] # ExpectedNames[2]
    /\ result.kind = "ok"
    /\ result.value = ExpectedNames[1] \o <<" ">> \o ExpectedNames[2]

(***************************************************************************)
(* count_rows                                                              *)
(***************************************************************************)
\* The pages of a file with a one-page schema and table pages behind it.
MaxPages == 3

TextB == <<"b">>

DataLeaf(k) == LeafPage([i \in 1..k |-> DataRow])

\* The pages a table's B-tree is made of in a file of n pages: leaves, interior pages
\* over pages 2..n, interior pages whose right-most pointer is 0, page 1 or a page
\* beyond the file, and an index page.
DataPages(n) ==
    {DataLeaf(k) : k \in 0..MaxCells}
    \cup {InteriorPage(ch, r) : ch \in SeqsUpTo(2..n, MaxInteriorCells), r \in 2..n}
    \cup {InteriorPage(<<>>, 0), InteriorPage(<<0>>, 2), InteriorPage(<<>>, 1),
          InteriorPage(<<>>, n + 1), IndexPage("LeafIndex", 1)}

\* One-page schemas: rows for table a (root 2) and table b (root 3) and an index
\* named a, and single rows whose rootpage is 0, page 1 or beyond the file.
FlatSchemas(n) ==
    LeafPages({SchemaRow(TextTable, TextA, 2), SchemaRow(TextTable, TextB, 3),
               SchemaRow(TextIndex, TextA, 3)})
    \cup {LeafPage(<<SchemaRow(TextTable, TextA, r)>>) : r \in {0, 1, n + 1}}

\* A one-page schema followed by the pages of table B-trees.
FlatFiles ==
    {[p \in 1..MaxPages |-> IF p = 1 THEN s ELSE d[p]] :
        s \in FlatSchemas(MaxPages), d \in [2..MaxPages -> DataPages(MaxPages)]}

\* Schemas of several pages, and one table page behind them that the rows point to.
TreeSchemaRows(n) ==
    {SchemaRow(TextTable, TextA, n + 1), SchemaRow(TextTable, TextB, n + 1),
     SchemaRow(TextIndex, TextA, n + 1)}

\* A "table" row whose columns 1 and 2 are integers.
IntNameRow ==
    [kind |-> "TableLeaf",
     payload |-> [serial_types |-> <<TxtType(TextTable), Int8Type, Int8Type, Int8Type,
                                      TxtType(<<>>)>>,
                  values |-> <<Txt(TextTable), Int8(1), Int8(1), Int8(2), Txt(<<>>)>>]]

\* The pages below the root of such a schema: leaves of rows, leaves whose row has an
\* integer in column 0 or in column 2, an index page, a page of no valid type, and interior pages
\* that point to the last schema page and back to page 1.
TreeSchemaPages(n) ==
    LeafPages(TreeSchemaRows(n))
    \cup {LeafPage(<<NonTextRow>>), LeafPage(<<IntNameRow>>), IndexPage("LeafIndex", 0),
          InvalidPage, InteriorPage(<<>>, n), InteriorPage(<<>>, 1)}

TreeSchemaFiles ==
    {[p \in 1..(MaxSchemaPages + 1) |->
        IF p = 1 THEN r ELSE IF p <= MaxSchemaPages THEN s[p] ELSE DataLeaf(k)] :
        r \in InteriorPages(2..MaxSchemaPages)
               \cup {InteriorPage(<<>>, MaxSchemaPages + 2)},
        s \in [2..MaxSchemaPages -> TreeSchemaPages(MaxSchemaPages)],
        k \in 1..MaxCells}

\* The three-level table: a root interior page (2), two interior children (3, 4) and
\* four leaves (5..8), behind a one-page schema.
ThreeLevelFiles ==
    {<<LeafPage(<<SchemaRow(TextTable, TextB, 5), SchemaRow(TextTable, TextA, 2)>>),
       InteriorPage(<<3>>, 4), InteriorPage(<<5>>, 6), InteriorPage(<<7>>, 8),
       DataLeaf(k[1]), DataLeaf(k[2]), DataLeaf(k[3]), DataLeaf(k[4])>> :
        k \in [1..4 -> 0..MaxCells]}

InitCount ==
    /\ header = GoodHeader
    /\ file \in FlatFiles \cup TreeSchemaFiles \cup ThreeLevelFiles
    /\ WalkerInit([cmd |-> "SELECT COUNT(*) FROM", table |-> TextA])

NextCount == CountStart \/ CountSchemaLoop \/ CountRowsLoop

SpecCount == InitCount /\ [][NextCount]_vars

\* num_cells of page p when it is a leaf-table page, 0 otherwise.
LeafCellsOf(f, p) == IF f[p].page_type = "LeafTable" THEN Len(f[p].cells) ELSE 0

\* Some schema row of a page reachable from page 1 is a "table" row named t with
\* rootpage r.
SchemaHasTable(f, t, r) ==
    \E p \in Reachable(f, 1) :
        /\ f[p].page_type = "LeafTable"
        /\ \E i \in DOMAIN f[p].cells :
              /\ Len(f[p].cells[i].payload.values) >= 4
              /\ f[p].cells[i].payload.values[1] = Txt(TextTable)
              /\ f[p].cells[i].payload.values[3] = Txt(t)
              /\ f[p].cells[i].payload.values[4].val = r

\* C1: when the pages reachable from the root page of the table count_rows found
\* form a finite tree of interior-table and leaf-table pages, count_rows returns the
\* sum of num_cells over the leaf pages of that tree: each leaf once, interior pages 0.
C1_CountRowsSumsLeaves ==
    (query.cmd = "SELECT COUNT(*) FROM" /\ pc = "done" /\ rootpage.set
        /\ rootpage.page # U32Max /\ IsTableTree(file, rootpage.page + 1, FALSE)) =>
        LET leaves == [p \in Reachable(file, rootpage.page + 1) |-> LeafCellsOf(file, p)] IN
        /\ SchemaHasTable(file, query.table, rootpage.page + 1)
        /\ result.kind = "ok"
        /\ result.value = SumOver(Reachable(file, rootpage.page + 1), leaves)

\* count_rows has returned the rows of the three-level table (root, two interior
\* children, four leaves), all leaves non-empty and not all of one size.
C1_Witness ==
    /\ query.cmd = "SELECT COUNT(*) FROM" /\ pc = "done"
    /\ file \in ThreeLevelFiles
    /\ \A p \in 5..8 : Len(file[p].cells) >= 1
    /\ Len(file[5].cells) # Len(file[8].cells)
    /\ result.kind = "ok"
    /\ result.value = Len(file[5].cells) + Len(file[6].cells) + Len(file[7].cells)
                      + Len(file[8].cells)

\* No schema row of a page reachable from page 1 is a "table" row named t.
NoSuchTable(f, t) ==
    \A p \in Reachable(f, 1) :
        f[p].page_type = "LeafTable" =>
            \A i \in DOMAIN f[p].cells :
                ~(/\ Len(f[p].cells[i].payload.values) >= 3
                  /\ f[p].cells[i].payload.values[1] = Txt(TextTable)
                  /\ f[p].cells[i].payload.values[3] = Txt(t))

\* Every "table" row of the leaf pages reachable from root has a text in column 2.
NamesTypedFrom(f, root) ==
    \A p \in Reachable(f, root) :
        f[p].page_type = "LeafTable" =>
            \A i \in DOMAIN f[p].cells :
                f[p].cells[i].payload.values[1] = Txt(TextTable) =>
                    f[p].cells[i].payload.values[3].tag = "N13AndOdd"

\* C2: when the schema is a tree of table pages whose rows have a text in column 0
\* (and, if that text is "table", in column 2) and none of its rows is a "table" row with the requested name, count_rows reads
\* every page of the schema tree and, with the stack empty, returns the not-found
\* error: it does not panic and returns no count.
C2_MissingTableNotFound ==
    (query.cmd = "SELECT COUNT(*) FROM" /\ pc = "done" /\ IsTableTree(file, 1, TRUE)
        /\ TextTypedFrom(file, 1) /\ NamesTypedFrom(file, 1)
        /\ NoSuchTable(file, query.table)) =>
        /\ result = QueryErr("Table not found in database")
        /\ remaining_pages = <<>>
        /\ ~rootpage.set
        /\ {fetched[i] : i \in DOMAIN fetched} = Reachable(file, 1)
        /\ Len(fetched) = Cardinality(Reachable(file, 1))

\* count_rows has ended not-found after walking a schema of three pages that holds
\* an index named like the requested table.
C2_Witness ==
    /\ query.cmd = "SELECT COUNT(*) FROM" /\ pc = "done"
    /\ IsTableTree(file, 1, TRUE) /\ TextTypedFrom(file, 1) /\ NamesTypedFrom(file, 1)
    /\ NoSuchTable(file, query.table)
    /\ Reachable(file, 1) = {1, 2, 3}
    /\ \E p \in {2, 3} : \E i \in DOMAIN file[p].cells :
          file[p].cells[i].payload.values[1] = Txt(TextIndex)
    /\ Len(fetched) = 3
    /\ result.kind = "err"

(***************************************************************************)
(* The three queries on files whose header may have a wrong magic string.  *)
(***************************************************************************)
\* The files: the three-level table with one row or two rows in every leaf.
QueryFiles ==
    {f \in ThreeLevelFiles :
        \E k \in 1..MaxCells : \A p \in 5..8 : Len(f[p].cells) = k}

\* A good header, and headers whose magic differs from MAGIC in one position, in
\* front of remaining bytes that are a good header's, all 0 or all 255.
QueryHeaders == {GoodHeader} \cup UNION {AlteredMagic(r) : r \in RestOfHeader}

Queries ==
    {[cmd |-> ".dbinfo"], [cmd |-> ".tables"],
     [cmd |-> "SELECT COUNT(*) FROM", table |-> TextA]}

InitQuery ==
    /\ header \in QueryHeaders
    /\ file \in QueryFiles
    /\ \E q \in Queries : WalkerInit(q)

NextQuery ==
    \/ DbinfoStart \/ DbinfoLoop
    \/ TablesStart \/ TablesLoop
    \/ CountStart \/ CountSchemaLoop \/ CountRowsLoop

SpecQuery == InitQuery /\ [][NextQuery]_vars

\* C8: a header whose first 16 bytes differ from the magic string makes
\* DbHeader::parse fail, whatever the other 84 bytes are, and a query that has
\* started on such a file has ended with that error without reading or decoding a page.
C8_WrongMagicStopsQuery ==
    (SubSeq(header, 1, 16) # MAGIC) =>
        /\ ~DbHeader_parse(header).ok
        /\ pc # "start" =>
              /\ pc = "done"
              /\ result = QueryErr("Magic string at beginning of database file is missing or wrong")
              /\ page = 0
              /\ fetched = <<>>
              /\ remaining_pages = <<>>

\* count_rows has ended on a file whose magic string differs from MAGIC in its last
\* byte only and whose remaining header bytes are a good header's.
C8_Witness ==
    /\ query.cmd = "SELECT COUNT(*) FROM"
    /\ pc = "done"
    /\ SubSeq(header, 1, 15) = SubSeq(MAGIC, 1, 15)
    /\ header[16] # MAGIC[16]
    /\ SubSeq(header, 17, HeaderLen) = SubSeq(GoodHeader, 17, HeaderLen)
    /\ result.kind = "err"
    /\ fetched = <<>>

(***************************************************************************)
(* BTreePage::parse on page buffers                                        *)
(***************************************************************************)
U16Bytes(n) == <<n \div 256, n % 256>>

\* n bytes b.
Fill(n, b) == [i \in 1..n |-> b]

\* A leaf cell: payload length 3, rowid 1, and a record with header length 2, one I8
\* column and its value 7.
LeafCellBytes == <<3, 1, 2, 1, 7>>

\* An interior cell: left child 2 and key 1.
InteriorCellBytes == <<0, 0, 0, 2, 1>>

RECURSIVE PointerBytes(_)
PointerBytes(ptrs) ==
    IF Len(ptrs) = 0 THEN <<>> ELSE U16Bytes(ptrs[1]) \o PointerBytes(SubSeq(ptrs, 2, Len(ptrs)))

\* A buffer of 106 bytes: the page header with type byte type and Len(ptrs) cells, the
\* cell pointer array ptrs, and one cell at offset 16 and one at offset 100.  The
\* bytes between the cells are 11, which is no serial type.
PageBuffer(type, ptrs) ==
    LET cell == IF type = 5 THEN InteriorCellBytes ELSE LeafCellBytes
        head == <<type, 0, 0>> \o U16Bytes(Len(ptrs)) \o <<0, 16, 0>>
                \o (IF type \in {2, 5} THEN <<0, 0, 0, 3>> ELSE <<>>)
                \o PointerBytes(ptrs)
    IN  head \o Fill(16 - Len(head), 0) \o cell \o Fill(79, 11) \o cell \o <<0>>

\* The most cells a page buffer of the model has.
MaxPointers == 2

\* Stored cell pointers: the two cells' offsets as stored on page 1 (116, 200) and on
\* another page (16, 100), pointers below 100, and pointers at and beyond the end.
StoredPointers == {0, 16, 50, 99, 100, 105, 106, 107, 116, 200, 206}

\* Type bytes: the four page types and one that is none.
TypeBytes == {0, 2, 5, 10, 13}

PageInputs ==
    {[fn |-> "BTreePage::parse", page |-> PageBuffer(t, ptrs), first_page |-> fp] :
        t \in TypeBytes, ptrs \in SeqsUpTo(StoredPointers, MaxPointers), fp \in BOOLEAN}

InitPage ==
    /\ input \in PageInputs
    /\ output = NoOutput
    /\ overflow_checks \in BOOLEAN
    /\ WalkerIdle

\* BTreePage::parse(&page[100..], true) or BTreePage::parse(&page[0..], false).
PageCall ==
    /\ input.fn = "BTreePage::parse"
    /\ ~output.called
    /\ output' = BTreePage_parse(input.page, input.first_page)
    /\ UNCHANGED <<input, overflow_checks, walkerVars>>

NextPage == PageCall

SpecPage == InitPage /\ [][NextPage]_vars

\* The pointer stored in slot c (from 0) of the cell pointer array of a page buffer.
StoredPointer(bytes, c) ==
    LET offset == c * 2 + BTreePageHeader_len(BTreePageType_try_from(At(bytes, 0)).page_type)
    IN  U16FromBE(At(bytes, offset), At(bytes, offset + 1))

\* C9: for every pointer p stored in the cell pointer array of a page whose header
\* decodes, BTreePage::parse uses p - 100 as the cell's offset when first_page is
\* true and p when it is false: the pointer loop ends with exactly these offsets, and
\* a page that is returned holds them and the cells decoded at them.
C9_FirstPagePointerCorrection ==
    (input.fn = "BTreePage::parse" /\ output.called
        /\ BTreePageType_try_from(At(input.page, 0)).ok) =>
        LET h == BTreePageHeader_parse(SubSeq(input.page, 1, 12))
            effective == [c \in 1..h.num_cells |->
                            IF input.first_page THEN StoredPointer(input.page, c - 1) - 100
                            ELSE StoredPointer(input.page, c - 1)]
            cpa == CellPointerArray(input.page, input.first_page, h, 0, <<>>)
        IN  /\ ~cpa.panicked
            /\ cpa.array = effective
            /\ (~Panicked(output) /\ output.ok) =>
                  /\ output.cell_pointer_array = effective
                  /\ Len(output.cells) = h.num_cells

\* The offset the c-th stored pointer (from 0) stands for: the stored value, less 100
\* on the first page, whose buffer starts after the file header.
EffectivePointer(bytes, first_page, c) ==
    IF first_page THEN StoredPointer(bytes, c) - HeaderLen ELSE StoredPointer(bytes, c)

\* C13: when a cell pointer of a table page, after the first-page correction, lies at
\* or beyond the end of the supplied buffer, BTreePage::parse returns an error: it
\* does not panic and returns no page.
C13_PointerOutsideBufferIsError ==
    (input.fn = "BTreePage::parse" /\ output.called
        /\ At(input.page, 0) \in {5, 13}
        /\ \E c \in 1..BTreePageHeader_parse(SubSeq(input.page, 1, 12)).num_cells :
              EffectivePointer(input.page, input.first_page, c - 1) >= Len(input.page)) =>
        /\ ~Panicked(output)
        /\ ~output.ok

(***************************************************************************)
(* Record::parse on record bytes                                           *)
(***************************************************************************)
\* The most columns a record of the model has.
MaxColumns == 2

\* The varint of -1: nine bytes 255.
MinusOneVarint == Fill(VarintMaxBytes, 255)

\* Descriptors as their varints: 0..15, 17, 10 and 11 among them, and -1.
RecordDescriptors == {<<d>> : d \in (0..15) \cup {17}} \cup {MinusOneVarint}

\* The descriptors that are no serial type.
MalformedDescriptors == {<<10>>, <<11>>, MinusOneVarint}

\* The content length of a descriptor varint: st.len() of its serial type, 0 for a
\* descriptor that is none.
ContentLen(d) ==
    IF d \in MalformedDescriptors THEN 0 ELSE SerialType_len(SerialType_from(d[1]))

RECURSIVE Concat(_)
Concat(seqs) == IF Len(seqs) = 0 THEN <<>> ELSE seqs[1] \o Concat(SubSeq(seqs, 2, Len(seqs)))

\* Content bytes: 65 ("A", a positive integer's byte) or 200 (a negative integer's
\* byte, and alone no UTF-8).
ContentBytes == {65, 200}

\* How the header length of a record relates to the bytes of its header: equal, one
\* less, one more, or 0.
HeaderLenKinds == {"exact", "short", "long", "zero"}

HeaderLenOf(kind, descs) ==
    CASE kind = "exact" -> 1 + Len(Concat(descs))
      [] kind = "short" -> Len(Concat(descs))
      [] kind = "long" -> 2 + Len(Concat(descs))
      [] kind = "zero" -> 0

\* The bytes of a record: header length, descriptors, content, with the last cut
\* bytes left out, followed by tail.
RecordBytes(kind, descs, b, cut, tail) ==
    LET all == <<HeaderLenOf(kind, descs)>> \o Concat(descs)
               \o Concat([i \in 1..Len(descs) |-> Fill(ContentLen(descs[i]), b)])
    IN  SubSeq(all, 1, Len(all) - cut) \o tail

\* What follows a record in the slice: nothing, or four bytes.
RecordTails == {<<>>, <<0, 0, 1, 9>>}

RecordInputs ==
    {[fn |-> "Record::parse", header_len |-> k, descriptors |-> ds, cut |-> c,
      tail |-> t, bytes |-> RecordBytes(k, ds, b, c, t)] :
        k \in HeaderLenKinds, ds \in SeqsUpTo(RecordDescriptors, MaxColumns),
        b \in ContentBytes, c \in {0, 1}, t \in RecordTails}

\* Records shaped like schema rows: three one-character texts, a fourth column of
\* every descriptor, an empty text.
SchemaRecordInputs ==
    {[fn |-> "Record::parse", header_len |-> "exact",
      descriptors |-> <<<<15>>, <<15>>, <<15>>, d, <<13>>>>, cut |-> 0, tail |-> t,
      bytes |-> RecordBytes("exact", <<<<15>>, <<15>>, <<15>>, d, <<13>>>>, b, 0, t)] :
        d \in RecordDescriptors, b \in ContentBytes, t \in RecordTails}

InitRecord ==
    /\ input \in RecordInputs \cup SchemaRecordInputs
    /\ output = NoOutput
    /\ overflow_checks \in BOOLEAN
    /\ WalkerIdle

\* Record::parse(&bytes[bytes_read..], payload_len.0 as usize), as Cell::parse calls it.
RecordCall ==
    /\ input.fn = "Record::parse"
    /\ ~output.called
    /\ LET r == Record_parse(input.bytes) IN
         output' = IF r.panicked THEN r
                   ELSE [called |-> TRUE, panicked |-> FALSE, record |-> r.record,
                         read |-> r.read]
    /\ UNCHANGED <<input, overflow_checks, walkerVars>>

NextRecord == RecordCall

SpecRecord == InitRecord /\ [][NextRecord]_vars

\* C11: a record whose header holds a descriptor that is not in 0..9 and is not >= 12
\* (10, 11 or a negative value) makes Record::parse end with an error value: it does
\* not panic and returns no record.
C11_MalformedDescriptorIsError ==
    (input.fn = "Record::parse" /\ output.called /\ input.header_len = "exact"
        /\ input.cut = 0
        /\ \E i \in DOMAIN input.descriptors : input.descriptors[i] \in MalformedDescriptors) =>
        /\ ~output.panicked
        /\ "error" \in DOMAIN output

\* C12: when a page reached during a walk has page type interior-index or leaf-index,
\* the query ends with an error value: it neither panics nor returns a result.
C12_IndexPageIsUnsupportedError ==
    (pc = "done"
        /\ \E i \in DOMAIN fetched :
              /\ file[fetched[i]].page_type \in IndexPageTypes
              /\ (fetched[i] = 1 => i = 1)) =>
        result.kind = "err"

(***************************************************************************)
(* The order of a walk                                                     *)
(***************************************************************************)
\* Whether a is an initial part of b.
IsPrefix(a, b) == Len(a) <= Len(b) /\ a = SubSeq(b, 1, Len(a))

\* The pages a walk over f still visits for the pending pages of stack (0-based page
\* numbers), the last pushed and its whole subtree first.
RECURSIVE PendingOrder(_, _)
PendingOrder(f, stack) ==
    IF stack = <<>> THEN <<>>
    ELSE VisitOrder(f, stack[Len(stack)] + 1, Len(f))
         \o PendingOrder(f, SubSeq(stack, 1, Len(stack) - 1))

\* A walk from root that has fetched walked, stands before its page (fetched, not yet
\* visited) and has stack pending, is on the last-pushed-first order of root's tree;
\* a walk that has returned has fetched exactly that order.
OnVisitOrder(f, root, walked, stack, returned) ==
    /\ walked # <<>>
    /\ IF returned
       THEN walked = VisitOrder(f, root, Len(f)) /\ stack = <<>>
       ELSE VisitOrder(f, root, Len(f))
              = SubSeq(walked, 1, Len(walked) - 1)
                \o VisitOrder(f, walked[Len(walked)], Len(f))
                \o PendingOrder(f, stack)

MaxLoopPages == 3

\* Pages whose interior pages have no cells, so that a walk's stack holds at most one
\* page and no bound of the model stops a walk: an empty leaf, a leaf with the schema
\* row of table a rooted at any page, an interior page whose right-most pointer is
\* any page.
LoopPages ==
    {LeafPage(<<>>)}
    \cup {LeafPage(<<SchemaRow(TextTable, TextA, r)>>) : r \in 1..MaxLoopPages}
    \cup {InteriorPage(<<>>, r) : r \in 1..MaxLoopPages}

\* A page that points to itself makes a walk read it again and again without any
\* change of the walk's state; the files here have cycles of two pages and longer,
\* on which every step of the walk changes the page it stands on.
NoSelfPointer(f) == \A p \in DOMAIN f : \A i \in DOMAIN ChildrenOf(f, p) : ChildrenOf(f, p)[i] # p

InitWalk ==
    /\ header = GoodHeader
    /\ file \in [1..MaxLoopPages -> LoopPages]
    /\ NoSelfPointer(file)
    /\ \E q \in Queries : WalkerInit(q)

\* The program is one thread that runs each statement after the last: a step that can
\* be taken is taken.
SpecWalk == InitWalk /\ [][NextQuery]_vars /\ WF_vars(NextQuery)

\* C15: every traversal eventually terminates, with a result or with an error, on
\* every page graph the child pointers of the file can form.
C15_EveryWalkTerminates == <>(pc = "done")

(***************************************************************************)
(* Cell::parse on cell bytes                                               *)
(***************************************************************************)
\* How the payload length of a leaf cell relates to the bytes its record takes:
\* equal, one less, four more.
PayloadLenKinds == {"exact", "less", "more"}

PayloadLenOf(kind, record) ==
    CASE kind = "exact" -> Len(record)
      [] kind = "less" -> Len(record) - 1
      [] kind = "more" -> Len(record) + 4

\* Leaf-table cells: payload length, rowid 7, a record whose header length is that of
\* its header, and what follows it; and interior and index cells.
CellInputs ==
    {[fn |-> "Cell::parse", kind |-> "LeafTable", payload_len |-> PayloadLenOf(k, r),
      record |-> r, tail |-> t, bytes |-> <<PayloadLenOf(k, r), 7>> \o r \o t] :
        k \in PayloadLenKinds,
        r \in {RecordBytes("exact", ds, b, 0, <<>>) :
                  ds \in SeqsUpTo(RecordDescriptors, MaxColumns), b \in ContentBytes},
        t \in RecordTails}
    \cup {[fn |-> "Cell::parse", kind |-> k, bytes |-> b] :
            k \in {"InteriorTable", "InteriorIndex", "LeafIndex"},
            b \in {InteriorCellBytes, <<0, 0, 2>>}}

InitCell ==
    /\ input \in CellInputs
    /\ output = NoOutput
    /\ overflow_checks \in BOOLEAN
    /\ WalkerIdle

\* Cell::parse(header.page_type, &page[cp as usize..]), as BTreePage::parse calls it.
CellCall ==
    /\ input.fn = "Cell::parse"
    /\ ~output.called
    /\ LET c == Cell_parse(input.kind, input.bytes) IN
         output' = IF c.panicked THEN c
                   ELSE [called |-> TRUE, panicked |-> FALSE, cell |-> c.cell]
    /\ UNCHANGED <<input, overflow_checks, walkerVars>>

NextCell == CellCall

SpecCell == InitCell /\ [][NextCell]_vars

\* C16: a decoded leaf-table cell carries an overflow page pointer if and only if its
\* record consumed fewer bytes than payload_length; a pointer that is present is the
\* 4-byte big-endian value that follows the record's bytes.
C16_OverflowIffRecordShorter ==
    (input.fn = "Cell::parse" /\ input.kind = "LeafTable" /\ output.called
        /\ ~output.panicked) =>
        /\ output.cell.has_overflow <=> Len(input.record) < input.payload_len
        /\ output.cell.has_overflow => output.cell.overflow = U32FromBE(input.tail, 0)

(***************************************************************************)
(* The records Record::parse returns                                       *)
(***************************************************************************)
\* C17: in every Record that Record::parse returns, values and serial_types have the
\* same length and values[i] is the RecordValue variant of serial_types[i] for every
\* i; so the value of the rootpage column passes count_rows' test of the variant, and
\* the "We checked the SerialType" panics are not reached.
C17_ValuesMatchSerialTypes ==
    (input.fn = "Record::parse" /\ output.called /\ ~output.panicked) =>
        LET r == output.record IN
        /\ Len(r.values) = Len(r.serial_types)
        /\ \A i \in DOMAIN r.serial_types :
              i \in DOMAIN r.values /\ r.values[i].tag = r.serial_types[i].tag
        /\ (Len(r.serial_types) >= 4 /\ r.serial_types[4].tag \in IntegerSerialTags) =>
              /\ Len(r.values) >= 4
              /\ CheckedSerialType(r)

\* Record::parse has returned a record of five columns whose fourth is a 16-bit
\* integer, as count_rows reads the rootpage of a schema row.
C17_Witness ==
    /\ input.fn = "Record::parse" /\ output.called /\ ~output.panicked
    /\ Len(output.record.serial_types) = 5
    /\ output.record.serial_types[4].tag = "I16"
    /\ output.record.values[4] = [tag |-> "I16", val |-> 16705]
    /\ output.record.values[1] = [tag |-> "N13AndOdd", val |-> <<65>>]

\* The sum of st.len() over serial types.
RECURSIVE SumOfLens(_)
SumOfLens(sts) ==
    IF sts = <<>> THEN 0 ELSE SerialType_len(Head(sts)) + SumOfLens(Tail(sts))

\* What RecordValue::parse reports for column i of record r decoded from bytes: the
\* call on the slice that starts after the header and the columns before i.
ReportedLen(bytes, r, i) ==
    LET from == I64Value(r.header_len) + SumOfLens(SubSeq(r.serial_types, 1, i - 1))
    IN  RecordValue_parse(r.serial_types[i],
                          SubSeq(bytes, from + 1, from + SerialType_len(r.serial_types[i]))).read

\* C18: RecordValue::parse reports exactly st.len() bytes for every serial type (0
\* for Null, Zero and One, (n-12)/2 for a blob descriptor n, (n-13)/2 for a text
\* descriptor n), and the byte count Record::parse returns is header_length plus the
\* sum of the content lengths of its descriptors.
C18_ReadIsHeaderPlusContent ==
    (input.fn = "Record::parse" /\ output.called /\ ~output.panicked) =>
        LET r == output.record IN
        /\ \A i \in DOMAIN r.serial_types :
              LET st == r.serial_types[i] IN
              /\ ReportedLen(input.bytes, r, i) = SerialType_len(st)
              /\ st.tag \in {"Null", "Zero", "One"} => ReportedLen(input.bytes, r, i) = 0
              /\ st.tag = "N12AndEven" => ReportedLen(input.bytes, r, i) = (st.n - 12) \div 2
              /\ st.tag = "N13AndOdd" => ReportedLen(input.bytes, r, i) = (st.n - 13) \div 2
        /\ output.read = I64Value(r.header_len) + SumOfLens(r.serial_types)

\* Record::parse has returned a record of a one-byte blob and a two-byte text that
\* is followed by other bytes: it has read 3 bytes of header and 3 of content.
C18_Witness ==
    /\ input.fn = "Record::parse" /\ output.called /\ ~output.panicked
    /\ input.descriptors = <<<<14>>, <<17>>>>
    /\ input.tail # <<>>
    /\ output.read = 6
    /\ I64Value(output.record.header_len) = 3
    /\ output.record.values = <<[tag |-> "N12AndEven", val |-> <<65>>],
                                [tag |-> "N13AndOdd", val |-> <<65, 65>>]>>

(***************************************************************************)
(* The row-count walk and the schema walk's pending pages                  *)
(***************************************************************************)
\* The sum of num_cells over the leaf-table pages among pages.
RECURSIVE SumLeafCells(_, _)
SumLeafCells(f, pages) ==
    IF pages = <<>> THEN 0 ELSE LeafCellsOf(f, Head(pages)) + SumLeafCells(f, Tail(pages))

\* Page p of f holds a "table" row named t whose rootpage is r.
PageHasTable(f, p, t, r) ==
    /\ f[p].page_type = "LeafTable"
    /\ \E i \in DOMAIN f[p].cells :
          /\ Len(f[p].cells[i].payload.values) >= 4
          /\ f[p].cells[i].payload.values[1] = Txt(TextTable)
          /\ f[p].cells[i].payload.values[3] = Txt(t)
          /\ f[p].cells[i].payload.values[4].val = r

\* Page number q (on disk) is a child pointer of a page reachable from root.
PointedFrom(f, root, q) ==
    \E p \in Reachable(f, root) : \E i \in DOMAIN ChildrenOf(f, p) : ChildrenOf(f, p)[i] = q

\* C19: the row-count walk of count_rows starts from the matched table's root page
\* with an empty stack: once the row is found, the pages fetched are the root and
\* pages reachable from it, the pending pages are child pointers of the root's tree,
\* never pages left over from the schema walk, and the count returned is the sum of
\* num_cells over the leaf pages fetched from the root on.
C19_RowWalkFromRootOnly ==
    (pc \in {"rows", "done"} /\ rootpage.set /\ ReadOk(rootpage.page)) =>
        \E k \in 1..(Len(fetched) - 1) :
            /\ PageHasTable(file, fetched[k], query.table, rootpage.page + 1)
            /\ fetched[k + 1] = rootpage.page + 1
            /\ \A i \in (k + 1)..Len(fetched) : fetched[i] \in Reachable(file, rootpage.page + 1)
            /\ \A j \in DOMAIN remaining_pages :
                  PointedFrom(file, rootpage.page + 1, remaining_pages[j] + 1)
            /\ (pc = "done" /\ result.kind = "ok") =>
                  result.value = SumLeafCells(file, SubSeq(fetched, k + 1, Len(fetched)))

\* count_rows has returned the rows of table a, found on schema page 3 while schema
\* page 2, which holds rows too, was still pending: only pages 1, 3 and the table's
\* page 4 were fetched.
C19_Witness ==
    /\ pc = "done" /\ result.kind = "ok"
    /\ file \in TreeSchemaFiles
    /\ file[1] = InteriorPage(<<2>>, 3)
    /\ PageHasTable(file, 2, TextA, 4)
    /\ fetched = <<1, 3, 4>>
    /\ result.value = Len(file[4].cells)

====
